---- MODULE Spec2Model ----
(***************************************************************************)
(* Model of the sentencing field micro-parsers and the row processor of    *)
(* src/sentencing_data_processing.py, of the document processors of        *)
(* src/case_data_processing.py and src/generate_data.py, of their         *)
(* variants in src/backend, of the command line of src/cli.py, and of the  *)
(* case-relation call and the legislation index of                         *)
(* src/reference_processing.py.                                            *)
(*                                                                         *)
(* A Python str is a sequence of one-character strings.  A raw field value *)
(* is None, the float NaN, or a str; all three are wrapped in a record of  *)
(* one shape so that any two values can be compared.                       *)
(***************************************************************************)
EXTENDS Integers, Sequences, FiniteSets, TLC

VARIABLES pc, op, raw, table, pairs, ret, days, file, loads, env, procs

vars == <<pc, op, raw, table, pairs, ret, days, file, loads, env, procs>>

\* ------------------------------------------------------------------ bounds
MaxTokens == 3
MaxRows == 2
MaxPairs == 2
MaxLoads == 2
MaxDocTokens == 3
MaxProcs == 2
MaxTextTokens == 3
MaxParagraphs == 2

\* ----------------------------------------------------------- Python values
None == [kind |-> "None", s |-> <<>>]
NaN == [kind |-> "nan", s |-> <<>>]
Str(s) == [kind |-> "str", s |-> s]
PyInt(n) == [kind |-> "int", n |-> n]

\* pd.isna(x) or x == '' or x is None
IsAbsent(v) == v.kind \in {"None", "nan"} \/ (v.kind = "str" /\ v.s = <<>>)

DIGITS == <<"0", "1", "2", "3", "4", "5", "6", "7", "8", "9">>

\* str(n) for n >= 0
RECURSIVE DigitsOf(_)
DigitsOf(n) ==
  IF n < 10 THEN <<DIGITS[n + 1]>>
  ELSE DigitsOf(n \div 10) \o <<DIGITS[(n % 10) + 1]>>

\* str(x) for the kinds of raw value
PyStr(v) ==
  CASE v.kind = "None" -> <<"N", "o", "n", "e">>
    [] v.kind = "nan" -> <<"n", "a", "n">>
    [] v.kind = "int" -> DigitsOf(v.n)
    [] OTHER -> v.s

Return(value) == [kind |-> "return", value |-> value]
Raise(exc) == [kind |-> "raise", exc |-> exc]

\* ---------------------------------------------------------- str operations
IsSpace(c) == c \in {" ", "\t", "\n"}
IsDigit(c) == c \in {"0", "1", "2", "3", "4", "5", "6", "7", "8", "9"}

Tail2(s, n) == SubSeq(s, n + 1, Len(s))

\* the least and the greatest of a set of positions
FirstOf(S) == CHOOSE i \in S : \A j \in S : i <= j
LastOf(S) == CHOOSE i \in S : \A j \in S : j <= i

\* the positions of s that hold no white space
Inked(s) == { i \in 1..Len(s) : ~IsSpace(s[i]) }

\* s from the first, or to the last, of the positions `inked`
FromFirst(s, inked) == IF inked = {} THEN <<>> ELSE SubSeq(s, FirstOf(inked), Len(s))
ToLast(s, inked) == IF inked = {} THEN <<>> ELSE SubSeq(s, 1, LastOf(inked))

LStrip(s) == FromFirst(s, Inked(s))

RStrip(s) == ToLast(s, Inked(s))

\* str.strip()
Strip(s) == RStrip(LStrip(s))

\* str.startswith(p)
StartsWith(s, p) == Len(s) >= Len(p) /\ SubSeq(s, 1, Len(p)) = p

\* str.endswith(suffix)
EndsWith(s, suffix) ==
  Len(s) >= Len(suffix) /\ SubSeq(s, Len(s) - Len(suffix) + 1, Len(s)) = suffix

\* the positions of s at which sub occurs
Occurrences(s, sub) == { i \in 1..(Len(s) - Len(sub) + 1) : SubSeq(s, i, i + Len(sub) - 1) = sub }

FirstOrZero(S) == IF S = {} THEN 0 ELSE FirstOf(S)
LastOrZero(S) == IF S = {} THEN 0 ELSE LastOf(S)

\* str.find(sub): the 1-based index of the first occurrence at or after
\* `from`, 0 when there is none
FindFrom(s, sub, from) == FirstOrZero({ i \in Occurrences(s, sub) : i >= from })

\* sub in s
Contains(s, sub) == FindFrom(s, sub, 1) # 0

\* str.replace(sub, ''), every non-overlapping occurrence from the left
RECURSIVE Remove(_, _)
Remove(s, sub) ==
  LET i == FindFrom(s, sub, 1)
  IN IF i = 0 THEN s
     ELSE SubSeq(s, 1, i - 1) \o Remove(Tail2(s, i + Len(sub) - 1), sub)

\* str.split(sep) for a one-character separator
RECURSIVE Split(_, _)
Split(s, sep) ==
  LET i == FindFrom(s, <<sep>>, 1)
  IN IF i = 0 THEN <<s>>
     ELSE <<SubSeq(s, 1, i - 1)>> \o Split(Tail2(s, i), sep)

\* str.split(sep, 1)
SplitFirst(s, sep) ==
  LET i == FindFrom(s, <<sep>>, 1)
  IN IF i = 0 THEN <<s>> ELSE <<SubSeq(s, 1, i - 1), Tail2(s, i)>>

UPPER == <<"A", "B", "C", "D", "E", "F", "G", "H", "I", "J", "K", "L", "M",
           "N", "O", "P", "Q", "R", "S", "T", "U", "V", "W", "X", "Y", "Z">>
LOWER == <<"a", "b", "c", "d", "e", "f", "g", "h", "i", "j", "k", "l", "m",
           "n", "o", "p", "q", "r", "s", "t", "u", "v", "w", "x", "y", "z">>

LowerChar(c) ==
  IF \E i \in 1..26 : UPPER[i] = c
  THEN LOWER[CHOOSE i \in 1..26 : UPPER[i] = c]
  ELSE c

\* str.lower()
Lower(s) == [i \in 1..Len(s) |-> LowerChar(s[i])]

\* ------------------------------------------------------------------- uid
DEFAULT_DEFENDANT == <<"1">>

UidComponents(case_id, docket, count, defendant) ==
  [case_id |-> case_id, docket |-> docket, count |-> count,
   defendant |-> defendant]

\* parse_uid_string without its first test for an absent value
parse_uid_string_NoAbsentCheck(uid_str) ==
  LET parts == Split(Strip(PyStr(uid_str)), "_")
      n == Len(parts)
  IN Return(UidComponents(
       IF n >= 1 THEN Str(parts[1]) ELSE None,
       IF n >= 2 /\ n # 2 THEN Str(parts[2]) ELSE None,
       IF n >= 3 THEN Str(parts[3]) ELSE IF n = 2 THEN Str(parts[2]) ELSE None,
       IF n >= 4 THEN Str(parts[4]) ELSE Str(DEFAULT_DEFENDANT)))

\* parse_uid_string with the second of two segments taken as the docket
parse_uid_string_Positional(uid_str) ==
  IF IsAbsent(uid_str)
  THEN Return(UidComponents(None, None, None, Str(DEFAULT_DEFENDANT)))
  ELSE
    LET parts == Split(Strip(PyStr(uid_str)), "_")
        n == Len(parts)
    IN Return(UidComponents(
         IF n >= 1 THEN Str(parts[1]) ELSE None,
         IF n >= 2 THEN Str(parts[2]) ELSE None,
         IF n >= 3 THEN Str(parts[3]) ELSE None,
         IF n >= 4 THEN Str(parts[4]) ELSE Str(DEFAULT_DEFENDANT)))

parse_uid_string(uid_str) ==
  IF IsAbsent(uid_str)
  THEN Return(UidComponents(None, None, None, Str(DEFAULT_DEFENDANT)))
  ELSE
    LET parts == Split(Strip(PyStr(uid_str)), "_")
        n == Len(parts)
    IN Return(
         IF n = 2
         THEN UidComponents(Str(parts[1]), None, Str(parts[2]),
                            Str(DEFAULT_DEFENDANT))
         ELSE IF n = 3
         THEN UidComponents(Str(parts[1]), Str(parts[2]), Str(parts[3]),
                            Str(DEFAULT_DEFENDANT))
         ELSE IF n = 4
         THEN UidComponents(Str(parts[1]), Str(parts[2]), Str(parts[3]),
                            Str(parts[4]))
         ELSE UidComponents(
                IF n >= 1 THEN Str(parts[1]) ELSE None,
                IF n >= 2 THEN Str(parts[2]) ELSE None,
                IF n >= 3 THEN Str(parts[3]) ELSE None,
                IF n >= 4 THEN Str(parts[4]) ELSE Str(DEFAULT_DEFENDANT)))

\* ---------------------------------------------------------------- offence
YCJA_MARK == <<"_", "y", "c", "j", "a">>
YCJA_LABEL == <<" ", "(", "Y", "C", "J", "A", ")">>
CC == <<"c", "c">>
CC_U == <<"c", "c", "_">>

\* normalize_offence_code that only ever adds the "cc_" prefix
normalize_offence_code_AddOnly(offence_code) ==
  <<offence_code>> \o
    (IF ~StartsWith(offence_code, CC) THEN <<CC_U \o offence_code>> ELSE <<>>)

\* the variations of a code, the code itself first
normalize_offence_code(offence_code) ==
  <<offence_code>> \o
    (IF ~StartsWith(offence_code, CC)
     THEN <<CC_U \o offence_code>>
     ELSE IF StartsWith(offence_code, CC) /\ ~StartsWith(offence_code, CC_U)
     THEN <<CC_U \o Tail2(offence_code, 2)>>
     ELSE IF StartsWith(offence_code, CC_U)
     THEN <<CC \o Tail2(offence_code, 3)>>
     ELSE <<>>)

\* offences_df[offences_df['section'] == code]: the rows of that section, in
\* the order of the table
RowsOfSection(offences_df, code) ==
  SelectSeq(offences_df, LAMBDA r : r.section = code)

\* bool(x) of an offence_name cell: a str is true unless empty, NaN is a
\* non-zero float and so true, None is false
Truthy(v) ==
  CASE v.kind = "str" -> v.s # <<>>
    [] v.kind = "nan" -> TRUE
    [] OTHER -> FALSE

OffenceMatch(offence_code, offence_name) ==
  [offence_code |-> offence_code, offence_name |-> offence_name]

\* the two identical blocks that build the result of a match; the `+` of a
\* float NaN and a str raises TypeError
MatchResult(matched_code, offence_name, has_ycja) ==
  IF has_ycja /\ Truthy(offence_name)
  THEN IF offence_name.kind = "str"
       THEN Return(OffenceMatch(Str(matched_code),
                                Str(offence_name.s \o YCJA_LABEL)))
       ELSE Raise("TypeError")
  ELSE Return(OffenceMatch(Str(matched_code), offence_name))

\* the loop over the variations: the first one, other than the code already
\* tried, that has rows; <<>> when none has
RECURSIVE FirstVariation(_, _, _)
FirstVariation(variations, offence_code, offences_df) ==
  IF variations = <<>> THEN <<>>
  ELSE IF Head(variations) # offence_code
          /\ RowsOfSection(offences_df, Head(variations)) # <<>>
  THEN <<Head(variations)>>
  ELSE FirstVariation(Tail(variations), offence_code, offences_df)

parse_offence_string(offence_str, offences_df) ==
  IF IsAbsent(offence_str)
  THEN Return(OffenceMatch(None, None))
  ELSE
    LET original_code == Strip(PyStr(offence_str))
        offence_code ==
          IF Contains(original_code, YCJA_MARK)
          THEN Remove(original_code, YCJA_MARK)
          ELSE original_code
        has_ycja == Contains(original_code, YCJA_MARK)
        match == RowsOfSection(offences_df, offence_code)
        hit == FirstVariation(normalize_offence_code(offence_code),
                              offence_code, offences_df)
    IN IF match # <<>>
       THEN MatchResult(offence_code, match[1].offence_name, has_ycja)
       ELSE IF hit # <<>>
       THEN MatchResult(hit[1],
                        RowsOfSection(offences_df, hit[1])[1].offence_name,
                        has_ycja)
       ELSE Return(OffenceMatch(Str(offence_code), None))

\* ------------------------------------------------------------------- jail
INDETERMINATE == <<"i", "n", "d", "e", "t", "e", "r", "m", "i", "n", "a",
                   "t", "e">>

DataFrame(columns, rows) ==
  [kind |-> "DataFrame", columns |-> columns, rows |-> rows]

RECURSIVE SkipDigits(_, _)
SkipDigits(s, i) ==
  IF i <= Len(s) /\ IsDigit(s[i]) THEN SkipDigits(s, i + 1) ELSE i

RECURSIVE SkipSpaces(_, _)
SkipSpaces(s, i) ==
  IF i <= Len(s) /\ IsSpace(s[i]) THEN SkipSpaces(s, i + 1) ELSE i

DigitValue(c) ==
  CASE c = "0" -> 0 [] c = "1" -> 1 [] c = "2" -> 2 [] c = "3" -> 3
    [] c = "4" -> 4 [] c = "5" -> 5 [] c = "6" -> 6 [] c = "7" -> 7
    [] c = "8" -> 8 [] c = "9" -> 9

RECURSIVE DigitsValue(_)
DigitsValue(ds) ==
  IF ds = <<>> THEN 0
  ELSE 10 * DigitsValue(SubSeq(ds, 1, Len(ds) - 1)) + DigitValue(ds[Len(ds)])

RECURSIVE Pow10(_)
Pow10(k) == IF k = 0 THEN 1 ELSE 10 * Pow10(k - 1)

\* a float that came from a decimal numeral, kept exactly as num/den with
\* den a power of ten and no common factor ten
RECURSIVE Reduce(_, _)
Reduce(num, den) ==
  IF den > 1 /\ num % 10 = 0 THEN Reduce(num \div 10, den \div 10)
  ELSE [num |-> num, den |-> den]

\* float(text) for text matching \d+(?:\.\d+)?
FloatOfNumeral(text) ==
  LET dot == FindFrom(text, <<".">>, 1)
      whole == IF dot = 0 THEN text ELSE SubSeq(text, 1, dot - 1)
      frac == IF dot = 0 THEN <<>> ELSE Tail2(text, dot)
  IN Reduce(DigitsValue(whole \o frac), Pow10(Len(frac)))

\* one attempt of (\d+(?:\.\d+)?)\s*([ymd]) at position i, re.IGNORECASE.
\* The greedy choice is the only one that can succeed: after a maximal run
\* of digits the next character is no digit, so giving digits back or
\* leaving the fraction out puts a digit or a '.' where \s*[ymd] must match.
TimeUnitAt(s, i) ==
  LET j == SkipDigits(s, i)
      k == IF j > i /\ j <= Len(s) /\ s[j] = "." /\ SkipDigits(s, j + 1) > j + 1
           THEN SkipDigits(s, j + 1)
           ELSE j
      l == SkipSpaces(s, k)
  IN IF j > i /\ l <= Len(s) /\ LowerChar(s[l]) \in {"y", "m", "d"}
     THEN [ok |-> TRUE, number |-> SubSeq(s, i, k - 1), unit |-> s[l],
           end |-> l + 1]
     ELSE [ok |-> FALSE, number |-> <<>>, unit |-> "", end |-> i]

\* re.findall of the pattern from position i, each match made a row
RECURSIVE FindAllTimeUnits(_, _)
FindAllTimeUnits(s, i) ==
  IF i > Len(s) THEN <<>>
  ELSE LET m == TimeUnitAt(s, i)
       IN IF m.ok
          THEN <<[quantity |-> FloatOfNumeral(m.number),
                  unit |-> LowerChar(m.unit)]>>
               \o FindAllTimeUnits(s, m.end)
          ELSE FindAllTimeUnits(s, i + 1)

RECURSIVE RowsOfParts(_)
RowsOfParts(parts) ==
  IF parts = <<>> THEN <<>>
  ELSE FindAllTimeUnits(Strip(Head(parts)), 1) \o RowsOfParts(Tail(parts))

\* parse_jail_string comparing with "indeterminate" without lower()
parse_jail_string_CaseSensitive(jail_str) ==
  IF IsAbsent(jail_str)
  THEN Return(DataFrame(<<"quantity", "unit">>, <<>>))
  ELSE
    LET s == Strip(PyStr(jail_str))
        parts == IF Contains(s, <<"&">>) THEN Split(s, "&") ELSE <<s>>
        data == RowsOfParts(parts)
    IN IF s = INDETERMINATE
       THEN Return(Str(INDETERMINATE))
       ELSE Return(DataFrame(IF data = <<>> THEN <<>>
                             ELSE <<"quantity", "unit">>, data))

parse_jail_string(jail_str) ==
  IF IsAbsent(jail_str)
  THEN Return(DataFrame(<<"quantity", "unit">>, <<>>))
  ELSE
    LET s == Strip(PyStr(jail_str))
        parts == IF Contains(s, <<"&">>) THEN Split(s, "&") ELSE <<s>>
        data == RowsOfParts(parts)
    IN IF Lower(s) = INDETERMINATE
       THEN Return(Str(INDETERMINATE))
       ELSE Return(DataFrame(IF data = <<>> THEN <<>>
                             ELSE <<"quantity", "unit">>, data))

\* int(quantity * factor): both are non-negative, so truncation is the floor
IntOfProduct(quantity, factor) == (quantity.num * factor) \div quantity.den

\* DaysOfRow without the special case of 12 months
DaysOfRow_Month30(row) ==
  CASE row.unit = "y" -> IntOfProduct(row.quantity, 365)
    [] row.unit = "m" -> IntOfProduct(row.quantity, 30)
    [] row.unit = "d" -> IntOfProduct(row.quantity, 1)
    [] OTHER -> 0

DaysOfRow(row) ==
  CASE row.unit = "y" -> IntOfProduct(row.quantity, 365)
    [] row.unit = "m" /\ row.quantity.num = 12 * row.quantity.den -> 365
    [] row.unit = "m" -> IntOfProduct(row.quantity, 30)
    [] row.unit = "d" -> IntOfProduct(row.quantity, 1)
    [] OTHER -> 0

RECURSIVE SumDays(_)
SumDays(rows) ==
  IF rows = <<>> THEN 0 ELSE DaysOfRow(Head(rows)) + SumDays(Tail(rows))

calculate_total_days(df) ==
  IF df.kind = "str" /\ df.s = INDETERMINATE THEN Return(None)
  ELSE IF df.kind # "DataFrame" THEN Raise("AttributeError")
  ELSE IF df.rows = <<>> THEN Return(PyInt(0))
  ELSE Return(PyInt(SumDays(df.rows)))

\* ------------------------------------------------------------------- date
DateComponents(offence_date, offence_start_date, offence_end_date) ==
  [offence_date |-> offence_date, offence_start_date |-> offence_start_date,
   offence_end_date |-> offence_end_date]

\* parse_date_string filling the single date next to the pair
parse_date_string_BothShapes(date_str) ==
  IF IsAbsent(date_str)
  THEN Return(DateComponents(None, None, None))
  ELSE
    LET s == Strip(PyStr(date_str))
        parts == SplitFirst(s, "&")
    IN IF Contains(s, <<"&">>)
       THEN Return(DateComponents(Str(s), Str(Strip(parts[1])),
                                  Str(Strip(parts[2]))))
       ELSE Return(DateComponents(Str(s), None, None))

parse_date_string(date_str) ==
  IF IsAbsent(date_str)
  THEN Return(DateComponents(None, None, None))
  ELSE
    LET s == Strip(PyStr(date_str))
        parts == SplitFirst(s, "&")
    IN IF Contains(s, <<"&">>)
       THEN Return(DateComponents(None, Str(Strip(parts[1])),
                                  Str(Strip(parts[2]))))
       ELSE Return(DateComponents(Str(s), None, None))

\* ------------------------------------------------------------------- mode
parse_mode_string(mode_str) ==
  IF IsAbsent(mode_str)
  THEN Return(<<None, None>>)
  ELSE
    LET s == Strip(PyStr(mode_str))
        parts == SplitFirst(s, "-")
    IN IF Contains(s, <<"-">>)
       THEN Return(<<Str(parts[1]), Str(parts[2])>>)
       ELSE Return(<<Str(s), None>>)

\* ------------------------------------------------------------- conditions
PyFloat(q) == [kind |-> "float", num |-> q.num, den |-> q.den]

CONDITION_TYPES ==
  {<<"p", "r", "o", "b", "a", "t", "i", "o", "n">>,
   <<"d", "i", "s", "c", "h", "a", "r", "g", "e">>,
   <<"l", "t", "s", "o">>,
   <<"i", "r", "c", "s">>,
   <<"p", "a", "r", "o", "l", "e">>}

ConditionsComponents(time, unit, type) ==
  [time |-> time, unit |-> unit, type |-> type]

\* ^<time_unit>-<type>$ without re.IGNORECASE on the type
MatchTimeUnitType_CaseSensitive(s) ==
  LET m == TimeUnitAt(s, 1)
  IN m.ok /\ m.end <= Len(s) /\ s[m.end] = "-"
     /\ Tail2(s, m.end) \in CONDITION_TYPES

\* ^<time_unit>-<type>$
MatchTimeUnitType(s) ==
  LET m == TimeUnitAt(s, 1)
  IN m.ok /\ m.end <= Len(s) /\ s[m.end] = "-"
     /\ Lower(Tail2(s, m.end)) \in CONDITION_TYPES

\* ^<type>-<time_unit>$ : no type holds a '-', so the type ends at the first
MatchTypeTimeUnit(s) ==
  LET i == FindFrom(s, <<"-">>, 1)
  IN i # 0 /\ Lower(SubSeq(s, 1, i - 1)) \in CONDITION_TYPES
     /\ TimeUnitAt(s, i + 1).ok /\ TimeUnitAt(s, i + 1).end = Len(s) + 1

\* ^<time_unit>$
MatchTimeUnit(s) == TimeUnitAt(s, 1).ok /\ TimeUnitAt(s, 1).end = Len(s) + 1

parse_conditions_string(conditions_str) ==
  IF IsAbsent(conditions_str)
  THEN Return(ConditionsComponents(None, None, None))
  ELSE
    LET s == Strip(PyStr(conditions_str))
        m1 == TimeUnitAt(s, 1)
        m2 == TimeUnitAt(s, FindFrom(s, <<"-">>, 1) + 1)
    IN IF MatchTimeUnitType(s)
       THEN Return(ConditionsComponents(
              PyFloat(FloatOfNumeral(m1.number)), Str(<<LowerChar(m1.unit)>>),
              Str(Lower(Tail2(s, m1.end)))))
       ELSE IF MatchTypeTimeUnit(s)
       THEN Return(ConditionsComponents(
              PyFloat(FloatOfNumeral(m2.number)), Str(<<LowerChar(m2.unit)>>),
              Str(Lower(SubSeq(s, 1, FindFrom(s, <<"-">>, 1) - 1)))))
       ELSE IF MatchTimeUnit(s)
       THEN Return(ConditionsComponents(
              PyFloat(FloatOfNumeral(m1.number)), Str(<<LowerChar(m1.unit)>>),
              None))
       ELSE Return(ConditionsComponents(None, None, None))

\* ------------------------------------------------------------------- fine
RECURSIVE RemoveChars(_, _)
RemoveChars(s, cs) ==
  IF s = <<>> THEN <<>>
  ELSE (IF Head(s) \in cs THEN <<>> ELSE <<Head(s)>>)
       \o RemoveChars(Tail(s), cs)

AllDigits(s) == \A i \in 1..Len(s) : IsDigit(s[i])

\* float(text) for the literals made of a sign, digits and one '.', and for
\* the words nan, inf and infinity; every other text is a ValueError.  The
\* input alphabets hold no 'e', 'E' or '_', which float() also accepts inside
\* a number.
ParseFloat(text) ==
  LET t == Strip(text)
      signed == t # <<>> /\ Head(t) \in {"-", "+"}
      neg == t # <<>> /\ Head(t) = "-"
      body == IF signed THEN Tail(t) ELSE t
      dot == FindFrom(body, <<".">>, 1)
      whole == IF dot = 0 THEN body ELSE SubSeq(body, 1, dot - 1)
      frac == IF dot = 0 THEN <<>> ELSE Tail2(body, dot)
      q == Reduce(DigitsValue(whole \o frac), Pow10(Len(frac)))
  IN IF Lower(body) = <<"n", "a", "n">>
     THEN [ok |-> TRUE, special |-> "nan", neg |-> FALSE, num |-> 0, den |-> 1]
     ELSE IF Lower(body) \in {<<"i", "n", "f">>,
                              <<"i", "n", "f", "i", "n", "i", "t", "y">>}
     THEN [ok |-> TRUE, special |-> "inf", neg |-> neg, num |-> 0, den |-> 1]
     ELSE IF AllDigits(whole) /\ AllDigits(frac) /\ Len(whole) + Len(frac) > 0
     THEN [ok |-> TRUE, special |-> "", neg |-> neg, num |-> q.num,
           den |-> q.den]
     ELSE [ok |-> FALSE, special |-> "", neg |-> FALSE, num |-> 0, den |-> 1]

\* f"{x:.2f}": the value rounded to hundredths, halves to even, written with
\* two decimals.  The decimal value stands for the double next to it, which
\* rounds the same way unless the decimal is an exact tie at the third place.
FormatFixed2(x) ==
  LET scaled == x.num * 100
      quot == scaled \div x.den
      rest == scaled % x.den
      cents == IF 2 * rest > x.den \/ (2 * rest = x.den /\ quot % 2 = 1)
               THEN quot + 1 ELSE quot
      sign == IF x.neg THEN <<"-">> ELSE <<>>
  IN IF x.special = "nan" THEN <<"n", "a", "n">>
     ELSE IF x.special = "inf" THEN sign \o <<"i", "n", "f">>
     ELSE sign \o DigitsOf(cents \div 100) \o <<".">>
          \o <<DIGITS[((cents % 100) \div 10) + 1], DIGITS[(cents % 10) + 1]>>

parse_fine_string(fine_str) ==
  IF IsAbsent(fine_str)
  THEN Return(None)
  ELSE
    LET s == Strip(RemoveChars(Strip(PyStr(fine_str)), {"$", ","}))
        fine_value == ParseFloat(s)
    IN IF fine_value.ok
       THEN Return(Str(<<"$">> \o FormatFixed2(fine_value)))
       ELSE Return(None)

\* ----------------------------------------------------------------- appeal
AppealComponents(court, result) == [court |-> court, result |-> result]

parse_appeal_string(appeal_str) ==
  IF IsAbsent(appeal_str)
  THEN Return(AppealComponents(None, None))
  ELSE
    LET parts == SplitFirst(Strip(PyStr(appeal_str)), "_")
    IN IF Len(parts) = 2
       THEN Return(AppealComponents(Str(Strip(parts[1])), Str(Strip(parts[2]))))
       ELSE Return(AppealComponents(
              IF Len(parts) > 0 THEN Str(Strip(parts[1])) ELSE None, None))

\* ---------------------------------------------------- process_master_row
\* the offences file: whether pd.read_csv can read it, and the table it holds
OffencesFile(readable, rows) == [readable |-> readable, table |-> rows]

\* pd.read_csv(offences_file): the table, or the error of a file that cannot
\* be read
load_offences_lookup(offences_file) ==
  IF offences_file.readable THEN Return(offences_file.table)
  ELSE Raise("FileNotFoundError")

\* whether parse_offence_string, called without a table, reaches
\* load_offences_lookup: it returns before on an absent value
LoadsLookup(offence_str) == ~IsAbsent(offence_str)

\* parse_offence_string(offence_str, offences_file=offences_file): no table
\* is handed over, so the call loads the file itself
parse_offence_string_file(offence_str, offences_file) ==
  IF ~LoadsLookup(offence_str) THEN parse_offence_string(offence_str, <<>>)
  ELSE IF load_offences_lookup(offences_file).kind = "raise"
  THEN load_offences_lookup(offences_file)
  ELSE parse_offence_string(offence_str,
                            load_offences_lookup(offences_file).value)

FIELDS == <<"uid", "offence", "date", "jail", "mode", "conditions", "fine",
            "appeal">>

\* row_data: the type of the argument and what it holds, a mapping from
\* column names for a Series or a dict, a sequence for a tuple or a list
RowData(shape, values) == [shape |-> shape, values |-> values]

ACCEPTED_SHAPES == {"Series", "dict", "tuple", "list"}

\* row_data.get(name, '') of a Series or dict, and
\* row_data[i] if len(row_data) > i else '' of a tuple or list (i from 0)
RowField(row_data, i) ==
  IF row_data.shape \in {"Series", "dict"}
  THEN IF FIELDS[i] \in DOMAIN row_data.values
       THEN row_data.values[FIELDS[i]]
       ELSE Str(<<>>)
  ELSE IF Len(row_data.values) > i - 1 THEN row_data.values[i]
  ELSE Str(<<>>)

YEAR == <<"y", "e", "a", "r">>
MONTH == <<"m", "o", "n", "t", "h">>
DAY == <<"d", "a", "y">>
UNKNOWN == <<"u", "n", "k", "n", "o", "w", "n">>
DISCHARGE == <<"d", "i", "s", "c", "h", "a", "r", "g", "e">>
ABSOLUTE_DISCHARGE ==
  <<"a", "b", "s", "o", "l", "u", "t", "e", " ">> \o DISCHARGE
CONDITIONAL_DISCHARGE ==
  <<"c", "o", "n", "d", "i", "t", "i", "o", "n", "a", "l", " ">> \o DISCHARGE

\* the unit letter made a word
UnitWord(unit) ==
  IF unit = Str(<<"y">>) THEN YEAR
  ELSE IF unit = Str(<<"m">>) THEN MONTH
  ELSE IF unit = Str(<<"d">>) THEN DAY
  ELSE UNKNOWN

\* time != 1 and time == 0 of a float
IsOne(time) == time.kind = "float" /\ time.num = time.den
IsZero(time) == time.kind = "float" /\ time.num = 0

\* ConditionsUnit adding the 's' whenever there is a time
ConditionsUnit_AlwaysPlural(unit, time) ==
  IF time.kind # "None" THEN UnitWord(unit) \o <<"s">> ELSE UnitWord(unit)

\* the unit of the result: the word, with an 's' if time is not None and
\* time != 1
ConditionsUnit(unit, time) ==
  IF time.kind # "None" /\ ~IsOne(time) THEN UnitWord(unit) \o <<"s">>
  ELSE UnitWord(unit)

\* the type of the result: discharge made absolute or conditional
ConditionsType(cond_type, time) ==
  IF cond_type = Str(DISCHARGE)
  THEN IF IsZero(time) THEN Str(ABSOLUTE_DISCHARGE)
       ELSE Str(CONDITIONAL_DISCHARGE)
  ELSE cond_type

\* the 'jail' entry of the dictionary process_master_row returns
JailSection(jail_df, jail_total_days) ==
  [components |-> IF jail_df.kind # "str" THEN jail_df ELSE None,
   total_days |-> jail_total_days,
   is_indeterminate |-> jail_df.kind = "str" /\ jail_df.s = INDETERMINATE]

\* the dictionary process_master_row returns
ParsedRow(uid_parsed, offence_parsed, date_parsed, jail, mode_parsed, conditions_parsed, fine_formatted, appeal_parsed) ==
  [uid |-> uid_parsed,
   offence |-> offence_parsed,
   date |-> date_parsed,
   jail |-> jail,
   mode |-> [jail_type |-> mode_parsed[1], sentence_mode |-> mode_parsed[2]],
   conditions |->
     [time |-> conditions_parsed.time,
      unit |-> Str(ConditionsUnit(conditions_parsed.unit,
                                  conditions_parsed.time)),
      type |-> ConditionsType(conditions_parsed.type, conditions_parsed.time)],
   fine |-> fine_formatted,
   appeal |-> appeal_parsed]

\* process_master_row(row_data, offences_file): the parsers other than the
\* offence parser return for every value of the kinds a row holds, so the
\* call raises on a wrong type of row_data or where the offence step raises
process_master_row(row_data, offences_file) ==
  IF row_data.shape \notin ACCEPTED_SHAPES THEN Raise("ValueError")
  ELSE
    LET offence_parsed ==
          parse_offence_string_file(RowField(row_data, 2), offences_file)
        jail_df == parse_jail_string(RowField(row_data, 4)).value
        jail_total_days ==
          IF jail_df.kind = "str" /\ jail_df.s = INDETERMINATE THEN None
          ELSE calculate_total_days(jail_df).value
    IN IF offence_parsed.kind = "raise" THEN offence_parsed
       ELSE Return(ParsedRow(
              parse_uid_string(RowField(row_data, 1)).value,
              offence_parsed.value,
              parse_date_string(RowField(row_data, 3)).value,
              JailSection(jail_df, jail_total_days),
              parse_mode_string(RowField(row_data, 5)).value,
              parse_conditions_string(RowField(row_data, 6)).value,
              parse_fine_string(RowField(row_data, 7)).value,
              parse_appeal_string(RowField(row_data, 8)).value))

\* ------------------------------------------- the remote case-relation call
\* a dict and a list, kept apart from each other when empty
Dict(entries) == [kind |-> "dict", entries |-> entries]
List(items) == [kind |-> "list", items |-> items]
EmptyDict == Dict(<<>>)
EmptyList == List(<<>>)

HasKey(d, key) == key \in DOMAIN d.entries

\* d.get(key, default)
Get(d, key, default) == IF HasKey(d, key) THEN d.entries[key] ELSE default

\* bool(x): None, '', {} and [] are false
PyBool(v) ==
  CASE v.kind = "None" -> FALSE
    [] v.kind = "str" -> v.s # <<>>
    [] v.kind = "dict" -> DOMAIN v.entries # {}
    [] v.kind = "list" -> v.items # <<>>
    [] OTHER -> TRUE

\* an exception with the text str(e) gives
RaiseMsg(exc, message) == [kind |-> "raise", exc |-> exc, message |-> message]

\* an HTTP response: its status code and what response.json() does
Response(status_code, json) == [status_code |-> status_code, json |-> json]

\* what a call meets outside the program: the configured API key, what
\* legal_citation_parser.parse_citation does with the citation, and what
\* requests.get does with the URL
RelEnv(api_key, parse, response) ==
  [kind |-> "rel", api_key |-> api_key, parse |-> parse, response |-> response]

KEY_NOT_FOUND ==
  <<"C", "A", "N", "L", "I", "I", "_", "A", "P", "I", "_", "K", "E", "Y",
    " ", "n", "o", "t", " ", "f", "o", "u", "n", "d", " ", "i", "n", " ",
    "e", "n", "v", "i", "r", "o", "n", "m", "e", "n", "t", " ", "v", "a",
    "r", "i", "a", "b", "l", "e", "s">>
COULD_NOT_PARSE ==
  <<"C", "o", "u", "l", "d", " ", "n", "o", "t", " ", "p", "a", "r", "s",
    "e", " ", "c", "i", "t", "a", "t", "i", "o", "n", ":", " ">>
NO_LOWER ==
  <<"'", "N", "o", "n", "e", "T", "y", "p", "e", "'", " ", "o", "b", "j",
    "e", "c", "t", " ", "h", "a", "s", " ", "n", "o", " ", "a", "t", "t",
    "r", "i", "b", "u", "t", "e", " ", "'", "l", "o", "w", "e", "r", "'">>
NO_GET ==
  <<"'", "l", "i", "s", "t", "'", " ", "o", "b", "j", "e", "c", "t", " ",
    "h", "a", "s", " ", "n", "o", " ", "a", "t", "t", "r", "i", "b", "u",
    "t", "e", " ", "'", "g", "e", "t", "'">>
RATE_LIMIT_REACHED ==
  <<"R", "a", "t", "e", " ", "l", "i", "m", "i", "t", " ", "r", "e", "a",
    "c", "h", "e", "d">>
API_ERROR == <<"A", "P", "I", " ", "e", "r", "r", "o", "r", ":", " ">>

\* metadata_processing._parse_citation: None when the parser raises or
\* gives nothing
_parse_citation(citation, e) ==
  IF e.parse.kind = "raise" THEN None
  ELSE IF ~PyBool(e.parse.value) THEN None
  ELSE e.parse.value

\* the `except Exception` of get_case_relations
RelationsFailed(message) ==
  Return(Dict([error |-> Str(message), citingCases |-> EmptyList,
               citedCases |-> EmptyList, metadata |-> None]))

\* reference_processing.get_case_relations; metadata_processing has the
\* same function
get_case_relations(citation, caseref_type, e) ==
  LET citation_data == _parse_citation(citation, e)
  IN IF ~PyBool(e.api_key) THEN RelationsFailed(KEY_NOT_FOUND)
     ELSE IF ~PyBool(citation_data) \/ ~HasKey(citation_data, "court")
             \/ ~HasKey(citation_data, "uid")
     THEN RelationsFailed(COULD_NOT_PARSE \o citation)
     ELSE IF citation_data.entries["court"].kind # "str"
             \/ citation_data.entries["uid"].kind # "str"
     THEN RelationsFailed(NO_LOWER)
     ELSE IF e.response.kind = "raise"
     THEN RelationsFailed(e.response.message)
     ELSE IF e.response.value.status_code = 429
     THEN Return(Dict(
            (caseref_type :> EmptyList)
            @@ [error |-> Str(RATE_LIMIT_REACHED),
                metadata |-> Get(citation_data, "metadata", EmptyDict)]))
     ELSE IF e.response.value.status_code # 200
     THEN Return(Dict(
            (caseref_type :> EmptyList)
            @@ [error |->
                  Str(API_ERROR \o DigitsOf(e.response.value.status_code)),
                metadata |-> Get(citation_data, "metadata", EmptyDict)]))
     ELSE IF e.response.value.json.kind = "raise"
     THEN RelationsFailed(e.response.value.json.message)
     ELSE IF e.response.value.json.value.kind # "dict"
     THEN RelationsFailed(NO_GET)
     ELSE Return(Dict(
            (caseref_type :>
               Get(e.response.value.json.value, caseref_type, EmptyList))
            @@ [error |-> None,
                metadata |->
                  IF PyBool(Get(citation_data, "metadata", EmptyDict))
                  THEN Get(citation_data, "metadata", EmptyDict)
                  ELSE EmptyDict]))

\* the `except Exception` of get_citing_cases
CitingFailed(message) ==
  Return(Dict([error |-> Str(message), cases |-> EmptyList,
               metadata |-> None]))

\* the names bound at the top level of backend/text_processing.py: its
\* imports, its logger and its functions
BACKEND_GLOBALS ==
  {"re", "BeautifulSoup", "requests", "os", "Path", "Dict", "Any", "Tuple",
   "logging", "html2text", "json", "legal_citation_parser", "logger",
   "html_to_markdown", "clean_header", "split_header_and_body",
   "extract_citation", "get_metadata_from_citation", "extract_legislation",
   "extract_decisions", "extract_canlii_summary", "remove_after_string",
   "replace_newlines", "remove_newline_prefix_space", "clean_text_section",
   "get_canonical_filename", "save_processed_text", "get_citing_cases"}

NameNotDefined(name) == <<"n", "a", "m", "e", " ", "'">> \o name \o <<"'", " ", "i", "s", " ", "n", "o", "t", " ", "d", "e", "f", "i", "n", "e", "d">>
CONFIG == <<"C", "o", "n", "f", "i", "g">>

\* get_citing_cases in a module that binds the names `globals`: the parser
\* is called directly, so what it raises is caught here
get_citing_cases_in(citation, e, globals) ==
  IF "Config" \notin globals THEN CitingFailed(NameNotDefined(CONFIG))
  ELSE IF ~PyBool(e.api_key) THEN CitingFailed(KEY_NOT_FOUND)
  ELSE IF e.parse.kind = "raise" THEN CitingFailed(e.parse.message)
  ELSE IF ~PyBool(e.parse.value) \/ ~HasKey(e.parse.value, "court")
          \/ ~HasKey(e.parse.value, "uid")
  THEN CitingFailed(COULD_NOT_PARSE \o citation)
  ELSE IF e.parse.value.entries["court"].kind # "str"
          \/ e.parse.value.entries["uid"].kind # "str"
  THEN CitingFailed(NO_LOWER)
  ELSE IF e.response.kind = "raise" THEN CitingFailed(e.response.message)
  ELSE IF e.response.value.status_code = 429
  THEN Return(Dict([error |-> Str(RATE_LIMIT_REACHED), cases |-> EmptyList,
                    metadata |-> None]))
  ELSE IF e.response.value.status_code # 200
  THEN Return(Dict(
         [error |-> Str(API_ERROR \o DigitsOf(e.response.value.status_code)),
          cases |-> EmptyList, metadata |-> None]))
  ELSE IF e.response.value.json.kind = "raise"
  THEN CitingFailed(e.response.value.json.message)
  ELSE IF e.response.value.json.value.kind # "dict"
  THEN CitingFailed(NO_GET)
  ELSE Return(Dict(
         [cases |-> Get(e.response.value.json.value, "citingCases", EmptyList),
          error |-> None,
          metadata |-> Get(e.parse.value, "metadata", EmptyDict)]))

\* backend.text_processing.get_citing_cases
get_citing_cases(citation, e) == get_citing_cases_in(citation, e, BACKEND_GLOBALS)

\* --------------------------------------------------- the text of a document
\* str.rfind(sub): the 1-based index of the last occurrence, 0 when there is
\* none
RFindFrom(s, sub, from) == LastOrZero({ i \in Occurrences(s, sub) : i <= from })
RFind(s, sub) == RFindFrom(s, sub, Len(s) - Len(sub) + 1)

ENG_MARKER ==
  <<"L", "o", "a", "d", "i", "n", "g", " ", "p", "a", "r", "a", "g", "r",
    "a", "p", "h", " ", "m", "a", "r", "k", "e", "r", "s", " ", "_", "_",
    "\n">>
FR_MARKER ==
  <<"C", "h", "a", "r", "g", "e", "m", "e", "n", "t", " ", "d", "e", "s",
    " ", "m", "a", "r", "q", "u", "e", "u", "r", "s", " ", "d", "e", " ",
    "p", "a", "r", "a", "g", "r", "a", "p", "h", "e", " ", "_", "_", "\n">>
TARGET_STRING == <<"\n", "_", "_", "\n">>
BACK_TO_TOP == <<"B", "a", "c", "k", " ", "t", "o", " ", "t", "o", "p">>
START_MARKER == <<"#", "#", " ">>
END_MARKER == <<" ", "*", " ">>

\* MarkersEnd using the earlier of two markers found
MarkersEnd_Earlier(eng_pos, fr_pos, eng_end, fr_end) ==
  IF eng_pos # 0 /\ fr_pos # 0
  THEN (IF eng_end < fr_end THEN eng_end ELSE fr_end)
  ELSE IF eng_pos # 0 THEN eng_end
  ELSE IF fr_pos # 0 THEN fr_end
  ELSE 0

\* start_pos of clean_header, as the last index the loading markers take:
\* the later end of the markers found at eng_pos and fr_pos, 0 with neither
MarkersEnd(eng_pos, fr_pos, eng_end, fr_end) ==
  IF eng_pos # 0 /\ fr_pos # 0
  THEN (IF eng_end > fr_end THEN eng_end ELSE fr_end)
  ELSE IF eng_pos # 0 THEN eng_end
  ELSE IF fr_pos # 0 THEN fr_end
  ELSE 0

\* the last index of a marker of length len found at pos
EndOf(pos, len) == pos + len - 1

\* header[start_pos:].strip() for the markers found at eng_pos and fr_pos
AfterMarkers(header, eng_pos, fr_pos) ==
  Strip(Tail2(header, MarkersEnd(eng_pos, fr_pos, EndOf(eng_pos, Len(ENG_MARKER)), EndOf(fr_pos, Len(FR_MARKER)))))

\* case_data_processing.clean_header: what follows the last loading marker
clean_header(header) ==
  AfterMarkers(header, RFind(header, ENG_MARKER), RFind(header, FR_MARKER))

\* the return of split_header_and_body for the second occurrence found
HeaderAndBody(text, target_string, second_occurrence) ==
  IF second_occurrence = 0 THEN <<<<>>, text>>
  ELSE <<clean_header(Strip(SubSeq(text, 1, second_occurrence - 1))),
         Strip(Tail2(text, second_occurrence + Len(target_string) - 1))>>

\* text.find(target_string, first_occurrence + 1), and 0 with no first
SecondOccurrence(text, target_string, first_occurrence) ==
  IF first_occurrence = 0 THEN 0
  ELSE FindFrom(text, target_string, first_occurrence + 1)

\* case_data_processing.split_header_and_body: <<header, body>>, cut at the
\* second occurrence of target_string
split_header_and_body(text, target_string) ==
  HeaderAndBody(text, target_string,
    SecondOccurrence(text, target_string, FindFrom(text, target_string, 1)))

\* a tuple, as against a str
Tuple(items) == [kind |-> "tuple", items |-> items]

\* header[from:end_pos].strip(), '' when end_pos was not found
CitationUpTo(header, from, end_pos) ==
  IF end_pos = 0 THEN <<>> ELSE Strip(SubSeq(header, from, end_pos - 1))

\* the citation after the start marker found at start_pos
CitationAfter(header, start_pos, from) ==
  IF start_pos = 0 THEN <<>>
  ELSE CitationUpTo(header, from, FindFrom(header, END_MARKER, from))

\* the citation of a header that is a str
CitationIn(header, start_pos) ==
  CitationAfter(header, start_pos, start_pos + Len(START_MARKER))

\* case_data_processing.extract_citation: header is a value, and one that is
\* no str has no find(), which the function's own handler turns into ''
extract_citation(header) ==
  IF header.kind # "str" THEN <<>>
  ELSE CitationIn(header.s, FindFrom(header.s, START_MARKER, 1))

\* s or None
TextOrNone(s) == IF s = <<>> THEN None ELSE Str(s)

\* text[start:end].strip() or None, for the 1-based first and last index
SectionOrNone(text, first, last) == TextOrNone(Strip(SubSeq(text, first, last)))

LEGISLATION ==
  <<"#", "#", "#", " ", "L", "e", "g", "i", "s", "l", "a", "t", "i", "o",
    "n">>
DECISIONS ==
  <<"#", "#", "#", " ", "D", "e", "c", "i", "s", "i", "o", "n", "s">>
LEGISLATION_FR ==
  <<"#", "#", "#", " ", "L", "é", "g", "i", "s", "l", "a", "t", "i", "o",
    "n">>
DECISIONS_FR ==
  <<"#", "#", "#", " ", "D", "é", "c", "i", "s", "i", "o", "n", "s">>
CITATIONS == <<"C", "i", "t", "a", "t", "i", "o", "n", "s", " ", "_", "_">>
FACTS == <<"#", "#", "#", " ", "F", "a", "c", "t", "s">>
GENERATED_ON ==
  <<"_", "G", "e", "n", "e", "r", "a", "t", "e", "d", " ", "o", "n">>

\* header[from:end_pos].strip() or None, None when end_pos was not found
SectionUpTo(header, from, end_pos) ==
  IF end_pos = 0 THEN None ELSE SectionOrNone(header, from, end_pos - 1)

\* the section after the start marker found at start_pos, up to end_marker
SectionAfter(header, start_pos, from, end_marker) ==
  IF start_pos = 0 THEN None
  ELSE SectionUpTo(header, from, FindFrom(header, end_marker, from))

\* the section between the markers of one language
SectionBetween(header, start_marker, end_marker, start_pos) ==
  SectionAfter(header, start_pos, start_pos + Len(start_marker), end_marker)

\* case_data_processing.extract_legislation
extract_legislation(header) ==
  IF FindFrom(header, LEGISLATION, 1) # 0
  THEN SectionBetween(header, LEGISLATION, DECISIONS, FindFrom(header, LEGISLATION, 1))
  ELSE SectionBetween(header, LEGISLATION_FR, DECISIONS_FR, FindFrom(header, LEGISLATION_FR, 1))

RECURSIVE NextSectionLine(_, _)
\* the line from `from` to the newline found, or to the end with none
LineAt(header, from, newline) ==
  IF newline = 0 THEN Tail2(header, from - 1)
  ELSE SubSeq(header, from, newline - 1)

\* `from` when its line starts, blanks apart, with ###, else the search from
\* the next line
SectionLineOr(header, from, newline) ==
  IF StartsWith(Strip(LineAt(header, from, newline)), <<"#", "#", "#">>) THEN from
  ELSE IF newline = 0 THEN 0
  ELSE NextSectionLine(header, newline + 1)

\* the index of the first line at or after `from` that starts, blanks apart,
\* with ###, the text after `from` being taken as lines; 0 when no line does
NextSectionLine(header, from) ==
  SectionLineOr(header, from, FindFrom(header, <<"\n">>, from))

\* the decisions up to the next section line, or to the end with none
DecisionsToLine(header, from, next) ==
  SectionOrNone(header, from, IF next # 0 THEN next - 1 ELSE Len(header))

\* the decisions up to the Citations marker found at end_pos, or else up to
\* the next section
DecisionsUpTo(header, from, end_pos) ==
  IF end_pos # 0 THEN SectionOrNone(header, from, end_pos - 1)
  ELSE DecisionsToLine(header, from, NextSectionLine(header, from))

\* the decisions after the start marker found at start_pos
DecisionsAfter(header, start_pos, from) ==
  IF start_pos = 0 THEN None
  ELSE DecisionsUpTo(header, from, FindFrom(header, CITATIONS, from))

\* the decisions after the start marker of one language
DecisionsFrom(header, start_marker, start_pos) ==
  DecisionsAfter(header, start_pos, start_pos + Len(start_marker))

\* case_data_processing.extract_decisions
extract_decisions(header) ==
  IF FindFrom(header, DECISIONS, 1) # 0
  THEN DecisionsFrom(header, DECISIONS, FindFrom(header, DECISIONS, 1))
  ELSE DecisionsFrom(header, DECISIONS_FR, FindFrom(header, DECISIONS_FR, 1))

\* case_data_processing.extract_canlii_summary
extract_canlii_summary(header) ==
  LET start_pos == FindFrom(header, FACTS, 1)
      end_pos == FindFrom(header, GENERATED_ON, start_pos)
  IN IF start_pos = 0 THEN None
     ELSE IF end_pos = 0 THEN None
     ELSE SectionOrNone(header, start_pos, end_pos - 1)

\* text[:index], and text when the target was not found
CutAt(text, index) == IF index # 0 THEN SubSeq(text, 1, index - 1) ELSE text

\* case_data_processing.remove_after_string
remove_after_string(text, target_string) ==
  CutAt(text, FindFrom(text, target_string, 1))

\* case_data_processing.replace_newlines: (?<!__)\n(?!__) made a blank
replace_newlines(text) ==
  SubSeq([i \in 1..Len(text) |->
     IF /\ text[i] = "\n"
        /\ ~(i > 2 /\ SubSeq(text, i - 2, i - 1) = <<"_", "_">>)
        /\ ~(i + 2 <= Len(text) /\ SubSeq(text, i + 1, i + 2) = <<"_", "_">>)
     THEN " " ELSE text[i]], 1, Len(text))

\* the characters of text at the positions kept
Picked(text, kept) == SubSeq([j \in 1..Len(kept) |-> text[kept[j]]], 1, Len(kept))

\* the characters of text at the positions for which Kept holds
Keep(text, Kept(_)) == Picked(text, SelectSeq([i \in 1..Len(text) |-> i], Kept))

\* text[p..i] is white space that starts with a newline
NewlineRun(text, p, i) == text[p] = "\n" /\ \A k \in p..i : IsSpace(text[k])

\* text[i..q] is white space that ends with a newline
RunToNewline(text, i, q) == text[q] = "\n" /\ \A k \in i..q : IsSpace(text[k])

\* case_data_processing.remove_newline_prefix_space: \n\s+ made \n, so
\* the white space after a newline goes
remove_newline_prefix_space(text) ==
  LET Kept(i) == ~(IsSpace(text[i]) /\ \E p \in 1..(i - 1) : NewlineRun(text, p, i))
  IN Keep(text, Kept)

\* re.sub(r"  +", " ", text): of a run of blanks the last one stays
CollapseSpaces(text) ==
  LET Kept(i) == ~(text[i] = " " /\ i < Len(text) /\ text[i + 1] = " ")
  IN Keep(text, Kept)

\* re.sub(r"\n\s*\n", "\n", text): of white space from a newline to the
\* last newline of the run, the first newline stays
CollapseNewlines(text) ==
  LET Kept(i) == ~(/\ IsSpace(text[i])
                   /\ \E p \in 1..(i - 1) : NewlineRun(text, p, i)
                   /\ \E q \in i..Len(text) : RunToNewline(text, i, q))
  IN Keep(text, Kept)

\* clean_text_section collapsing the blanks before the newlines are replaced
clean_text_section_SpacesFirst(text) ==
  Strip(CollapseNewlines(remove_newline_prefix_space(
    replace_newlines(CollapseSpaces(text)))))

\* case_data_processing.clean_text_section
clean_text_section(text) ==
  Strip(CollapseNewlines(CollapseSpaces(
    remove_newline_prefix_space(replace_newlines(text)))))

\* ------------------------------------------------ the document processors
CANLII_SUFFIX == <<" ", "(", "C", "a", "n", "L", "I", "I", ")">>
PLAIN_FIELDS == {"style_of_cause", "atomic_citation", "citation_type", "official_reporter_citation", "year", "court", "decision_number", "jurisdiction", "court_name", "court_level", "long_url", "short_url", "language", "docket_number", "decision_date"}

\* the normalized citation string of get_metadata_from_citation
FormattedCitation(citation, style_of_cause, atomic_citation) ==
  IF PyBool(style_of_cause) /\ PyBool(atomic_citation)
  THEN style_of_cause.s \o <<",", " ">> \o atomic_citation.s \o CANLII_SUFFIX
  ELSE IF PyBool(style_of_cause) THEN style_of_cause.s \o CANLII_SUFFIX
  ELSE IF PyBool(atomic_citation) THEN atomic_citation.s \o CANLII_SUFFIX
  ELSE citation

\* the fields get_metadata_from_citation maps from citation_data
MetadataFields(citation, citation_data) ==
  [k \in PLAIN_FIELDS |-> Get(citation_data, k, None)]
  @@ [citation |->
        Str(FormattedCitation(citation,
              Get(citation_data, "style_of_cause", Str(<<>>)),
              Get(citation_data, "atomic_citation", Str(<<>>)))),
      case_id |-> Get(citation_data, "uid", None),
      keywords |-> Get(citation_data, "keywords", EmptyList),
      categories |-> Get(citation_data, "categories", EmptyList)]

\* the fields it adds with include_relations
RelationFields(cited_cases_result, citing_cases_result) ==
  [cited_cases |-> Get(cited_cases_result, "citedCases", EmptyList),
   citing_cases |-> Get(citing_cases_result, "citingCases", EmptyList)]

\* the metadata for the citation_data the parser gave
MetadataOf(citation, include_relations, e, citation_data) ==
  IF ~PyBool(citation_data) THEN None
  ELSE IF include_relations
  THEN Dict(RelationFields(get_case_relations(citation, "citedCases", e).value,
                           get_case_relations(citation, "citingCases", e).value)
            @@ MetadataFields(citation, citation_data))
  ELSE Dict(MetadataFields(citation, citation_data))

\* metadata_processing.get_metadata_from_citation: None when the citation
\* does not parse, and a mapping of every field otherwise
get_metadata_from_citation(citation, include_relations, e) ==
  MetadataOf(citation, include_relations, e, _parse_citation(citation, e))

\* an HTML page, known by the markdown html2text renders it to
Html(markdown) == [kind |-> "html", markdown |-> markdown]

\* case_data_processing.html_to_markdown
html_to_markdown(html_content) == html_content.markdown

\* the names bound at the top level of case_data_processing.py
CASE_GLOBALS ==
  {"re", "os", "Path", "Dict", "Any", "Tuple", "logging", "html2text", "json",
   "logger", "html_to_markdown", "clean_header", "split_header_and_body",
   "extract_citation", "extract_legislation", "extract_decisions",
   "extract_canlii_summary", "remove_after_string", "replace_newlines",
   "remove_newline_prefix_space", "clean_text_section",
   "get_canonical_filename", "save_processed_text", "process_text"}

NO_CITATION ==
  <<"C", "o", "u", "l", "d", " ", "n", "o", "t", " ", "e", "x", "t", "r",
    "a", "c", "t", " ", "c", "i", "t", "a", "t", "i", "o", "n", " ", "f",
    "r", "o", "m", " ", "h", "e", "a", "d", "e", "r">>
NO_METADATA ==
  <<"C", "o", "u", "l", "d", " ", "n", "o", "t", " ", "e", "x", "t", "r",
    "a", "c", "t", " ", "m", "e", "t", "a", "d", "a", "t", "a", " ", "f",
    "r", "o", "m", " ", "c", "i", "t", "a", "t", "i", "o", "n">>
GET_METADATA ==
  <<"g", "e", "t", "_", "m", "e", "t", "a", "d", "a", "t", "a", "_", "f",
    "r", "o", "m", "_", "c", "i", "t", "a", "t", "i", "o", "n">>
GET_CITING ==
  <<"g", "e", "t", "_", "c", "i", "t", "i", "n", "g", "_", "c", "a", "s",
    "e", "s">>
SENTENCING_DATA ==
  <<"s", "e", "n", "t", "e", "n", "c", "i", "n", "g", "_", "d", "a", "t",
    "a">>

\* the dictionary process_text returns
ProcessedText(body, header, metadata, legislation_cited, decisions_cited, decisions_citing, error) ==
  Dict([_body |-> Str(body),
        header |-> header,
        metadata |-> metadata,
        legislation_cited |-> legislation_cited,
        decisions_cited |-> decisions_cited,
        decisions_citing |-> decisions_citing,
        sentencing_data |-> None,
        processing_log |-> IF PyBool(error) THEN "error" ELSE "found"])

\* the end of process_text for the citation, metadata and citing cases found
ProcessedOrRaised(header, body, include_header, globals, citation, metadata, api_response) ==
  IF citation = <<>> THEN RaiseMsg("ValueError", NO_CITATION)
  ELSE IF "get_metadata_from_citation" \notin globals
  THEN RaiseMsg("NameError", NameNotDefined(GET_METADATA))
  ELSE IF ~PyBool(metadata) THEN RaiseMsg("ValueError", NO_METADATA)
  ELSE IF "get_citing_cases" \notin globals
  THEN RaiseMsg("NameError", NameNotDefined(GET_CITING))
  ELSE IF "sentencing_data" \notin globals
  THEN RaiseMsg("NameError", NameNotDefined(SENTENCING_DATA))
  ELSE Return(ProcessedText(body,
         IF include_header THEN Str(header) ELSE None, metadata,
         extract_legislation(header), extract_decisions(header),
         Get(api_response, "cases", EmptyList),
         Get(api_response, "error", None)))

\* process_text from the citation of the header on
ProcessCitation(header, body, include_header, e, globals, citation) ==
  ProcessedOrRaised(header, body, include_header, globals, citation,
    get_metadata_from_citation(citation, TRUE, e),
    get_citing_cases(citation, e).value)

\* process_text from the cleaned header and body on
ProcessSections(header, body, include_header, e, globals) ==
  ProcessCitation(header, body, include_header, e, globals, extract_citation(Str(header)))

\* process_text from the split of the markdown on
ProcessParts(parts, include_header, e, globals) ==
  ProcessSections(clean_text_section(parts[1]),
    clean_text_section(remove_after_string(parts[2], BACK_TO_TOP)),
    include_header, e, globals)

\* process_text in a module that binds the names `globals`; an exception is
\* logged and raised again
process_text_in(text, include_header, e, globals) ==
  ProcessParts(split_header_and_body(html_to_markdown(text), TARGET_STRING),
    include_header, e, globals)

\* case_data_processing.process_text
process_text(text, include_header, e) == process_text_in(text, include_header, e, CASE_GLOBALS)

RECURSIVE SplitOn(_, _)
\* s cut at the separator found at i
SplitAtIndex(s, sep, i) ==
  IF i = 0 THEN <<s>>
  ELSE <<SubSeq(s, 1, i - 1)>> \o SplitOn(Tail2(s, i + Len(sep) - 1), sep)

\* str.split(sep) for a separator of any length
SplitOn(s, sep) == SplitAtIndex(s, sep, FindFrom(s, sep, 1))

\* sep.join(parts)
RECURSIVE Join(_, _)
Join(parts, sep) ==
  IF parts = <<>> THEN <<>>
  ELSE IF Len(parts) = 1 THEN parts[1]
  ELSE parts[1] \o sep \o Join(Tail(parts), sep)

NotBlank(chunk) == Strip(chunk) # <<>>

\* header, body and heading for the chunks that are not blank
HeaderBodyHeading(markdown, chunks) ==
  IF Len(chunks) < 4 THEN <<<<>>, markdown, <<>>>>
  ELSE <<clean_header(chunks[4]),
         Strip(Join(SubSeq(chunks, 5, Len(chunks)), TARGET_STRING)),
         <<>>>>

\* the split_header_and_body that generate_data imports, which gives a
\* section heading as a third value: the 4th chunk that is not blank is the
\* header, cleaned of the loading markers, and the chunks after it, joined
\* by the marker again, are the body; with fewer than 4 there is no header
\* and the whole text is the body.  There is no heading.
split_header_body_heading(markdown) ==
  HeaderBodyHeading(markdown, SelectSeq(SplitOn(markdown, TARGET_STRING), NotBlank))

HTML_SUFFIX == <<".", "h", "t", "m", "l">>
DATA_HTML == <<"d", "a", "t", "a", "/", "h", "t", "m", "l", "/">>
DATA_JSON == <<".", "/", "d", "a", "t", "a", "/", "j", "s", "o", "n", "/">>
REPORT_SUFFIX ==
  <<"-", "r", "e", "p", "o", "r", "t", ".", "j", "s", "o", "n">>
FILE_NOT_FOUND ==
  <<"F", "i", "l", "e", " ", "n", "o", "t", " ", "f", "o", "u", "n", "d",
    ":", " ">>
NO_SUCH_FILE ==
  <<"[", "E", "r", "r", "n", "o", " ", "2", "]", " ", "N", "o", " ", "s",
    "u", "c", "h", " ", "f", "i", "l", "e", " ", "o", "r", " ", "d", "i",
    "r", "e", "c", "t", "o", "r", "y", ":", " ">>
NO_CITATION_FOUND ==
  <<"N", "o", " ", "c", "i", "t", "a", "t", "i", "o", "n", " ", "f", "o",
    "u", "n", "d", ".">>
NO_METADATA_FOUND ==
  <<"N", "o", " ", "m", "e", "t", "a", "d", "a", "t", "a", " ", "f", "o",
    "u", "n", "d", ".">>
WROTE_REPORT ==
  <<"W", "r", "o", "t", "e", " ", "r", "e", "p", "o", "r", "t", " ", "t",
    "o", " ">>

\* the file name with .html at its end
HtmlFileName(file_name) ==
  IF EndsWith(Lower(file_name), HTML_SUFFIX) THEN file_name
  ELSE file_name \o HTML_SUFFIX

\* the markdown of the file at input_path
MarkdownAt(input_path, e) ==
  IF input_path \notin DOMAIN e.files
  THEN RaiseMsg("FileNotFoundError", FILE_NOT_FOUND \o input_path)
  ELSE Return(html_to_markdown(e.files[input_path]))

\* generate_data._load_markdown_from_html: e.files is the file system, a
\* function from the paths that exist to what the files hold
_load_markdown_from_html(filename, e) ==
  MarkdownAt(DATA_HTML \o HtmlFileName(Strip(filename)), e)

\* (clean_text_section(header), heading) of the parts of the markdown
HeaderAndHeading(parts) ==
  Return(Tuple(<<Str(clean_text_section(parts[1])), Str(parts[3])>>))

\* the pair for the markdown loaded, or the exception of the load
CleanHeaderOf(markdown) ==
  IF markdown.kind = "raise" THEN markdown
  ELSE HeaderAndHeading(split_header_body_heading(markdown.value))

\* generate_data._get_clean_header
_get_clean_header(filename, e) == CleanHeaderOf(_load_markdown_from_html(filename, e))

\* (body, heading) of the parts of the markdown
BodyAndHeading(parts) == Return(Tuple(<<Str(parts[2]), Str(parts[3])>>))

\* the pair for the markdown loaded, or the exception of the load
BodyOf(markdown) ==
  IF markdown.kind = "raise" THEN markdown
  ELSE BodyAndHeading(split_header_body_heading(markdown.value))

\* generate_data._get_body
_get_body(filename, e) == BodyOf(_load_markdown_from_html(filename, e))

\* the metadata of the result: {} without a citation
CaseMetadata(citation, e) ==
  IF citation # <<>> THEN get_metadata_from_citation(citation, TRUE, e)
  ELSE EmptyDict

\* the result for the header and the body got
CaseTextResult(header, body, include_header, e) ==
  IF header.kind = "raise" THEN header
  ELSE Return(Dict([header |-> IF include_header THEN header.value ELSE None,
                    body |-> body.value,
                    metadata |-> CaseMetadata(extract_citation(header.value), e)]))

\* generate_data._build_case_text_result: header is the pair that
\* _get_clean_header returns
_build_case_text_result(filename, include_header, e) ==
  CaseTextResult(_get_clean_header(filename, e), _get_body(filename, e), include_header, e)

\* how a command ends: typer.Exit(code) after a message, or its end after
\* what it has echoed
Exit(code, echo) == [kind |-> "exit", code |-> code, echo |-> echo]
Done(echo) == [kind |-> "done", echo |-> echo]

\* what case-text echoes without --json
CaseTextSummary(metadata, result) ==
  [citation |-> Get(metadata, "citation", None),
   court |-> Get(metadata, "court_name", None),
   decision_date |-> Get(metadata, "decision_date", None),
   citing_cases |-> Len(Get(result, "decisions_citing", EmptyList).items)]

\* metadata or {}
MetadataOrEmpty(metadata) == IF PyBool(metadata) THEN metadata ELSE EmptyDict

\* what case-text echoes for the result
CaseTextEcho(result, json_output) ==
  IF json_output THEN Done(result)
  ELSE Done(CaseTextSummary(MetadataOrEmpty(Get(result, "metadata", None)), result))

\* how case-text ends for what _build_case_text_result gives
CaseTextEnd(result, json_output) ==
  IF result.kind = "raise" THEN Exit(1, result.message)
  ELSE CaseTextEcho(result.value, json_output)

\* generate_data.case_text_cmd
case_text_cmd(input_path, include_header, json_output, e) ==
  IF input_path \notin DOMAIN e.files
  THEN RaiseMsg("FileNotFoundError", NO_SUCH_FILE \o <<"'">> \o input_path \o <<"'">>)
  ELSE CaseTextEnd(_build_case_text_result(input_path, include_header, e), json_output)

IsText(v) == v.kind = "str" /\ Strip(v.s) # <<>>

\* generate_report_cmd._extract_case_citation
_extract_case_citation(case_item) ==
  LET title == Get(case_item, "title", None)
      citation_value == Get(case_item, "citation", None)
      keys == <<"citation", "caseId", "case_id", "title">>
      found == { i \in 1..4 : IsText(Get(case_item, keys[i], None)) }
  IN IF IsText(title) /\ IsText(citation_value)
     THEN Str(Strip(title.s) \o <<",", " ">> \o Strip(citation_value.s))
     ELSE IF found = {} THEN None
     ELSE Str(Strip(Get(case_item,
            keys[CHOOSE i \in found : \A j \in found : i <= j], None).s))

RECURSIVE _collect_case_metadata(_, _)
\* the entry of a case with a citation and metadata, and none otherwise
CaseEntry(citation_value, metadata) ==
  IF PyBool(citation_value) /\ PyBool(metadata)
  THEN <<Dict([citation |-> citation_value, metadata |-> metadata])>>
  ELSE <<>>

\* the entry of a case for the citation extracted from it
CaseEntryOf(citation_value, e) ==
  CaseEntry(citation_value, get_metadata_from_citation(citation_value.s, TRUE, e))

\* generate_report_cmd._collect_case_metadata
_collect_case_metadata(cases, e) ==
  IF cases = <<>> THEN <<>>
  ELSE CaseEntryOf(_extract_case_citation(Head(cases)), e)
       \o _collect_case_metadata(Tail(cases), e)

\* the report generate-report writes, less its header, body_paragraphs and
\* cited_legislation entries, which hold text of the document only
Report(citation, metadata, cited_case_items, citing_case_items, e) ==
  Dict([citation |-> Str(citation),
        metadata |-> metadata,
        references |->
          Dict([cited_cases_metadata |->
                  List(_collect_case_metadata(cited_case_items.items, e)),
                citing_cases_metadata |->
                  List(_collect_case_metadata(citing_case_items.items, e))])])

\* case_id or 'unknown'
CaseIdOrUnknown(case_id) ==
  IF PyBool(case_id) THEN case_id.s ELSE <<"u", "n", "k", "n", "o", "w", "n">>

\* the path of the report
OutputPath(metadata) ==
  DATA_JSON \o CaseIdOrUnknown(Get(metadata, "case_id", None)) \o REPORT_SUFFIX

\* the end of generate-report that has written `report` at `path`
ReportWritten(path, report) ==
  [kind |-> "done",
   echo |-> WROTE_REPORT \o path,
   written |-> [path |-> path, report |-> report]]

\* generate-report from the metadata of the citation on
ReportOf(citation, e, metadata) ==
  IF ~PyBool(metadata) THEN Exit(1, NO_METADATA_FOUND)
  ELSE ReportWritten(OutputPath(metadata),
         Report(citation, metadata,
           Get(get_case_relations(citation, "citedCases", e).value, "citedCases", EmptyList),
           Get(get_case_relations(citation, "citingCases", e).value, "citingCases", EmptyList),
           e))

\* generate-report from the citation of the header on
ReportFor(citation, e) ==
  IF citation = <<>> THEN Exit(1, NO_CITATION_FOUND)
  ELSE ReportOf(citation, e, get_metadata_from_citation(citation, TRUE, e))

\* generate-report from the header on
ReportFrom(header, e) ==
  IF header.kind = "raise" THEN Exit(1, header.message)
  ELSE ReportFor(extract_citation(header.value.items[1]), e)

\* generate_data.generate_report_cmd, as how it ends; `written` is the file
\* it has written, if any
generate_report_cmd(filename, e) == ReportFrom(_get_clean_header(filename, e), e)

\* ----------------------------------------------- the backend's own variants
\* backend.text_processing.split_header_and_body: cut at the first
\* occurrence of target_string
backend_split_header_and_body(text, target_string) ==
  HeaderAndBody(text, target_string, FindFrom(text, target_string, 1))

\* header[start:end_pos].strip(), the end of the header standing for a
\* newline that was not found
LineUpTo(header, from, end_pos) ==
  Strip(SubSeq(header, from, IF end_pos = 0 THEN Len(header) ELSE end_pos - 1))

\* the citation after the start marker found at start_pos, None without one
LineAfter(header, start_pos, from) ==
  IF start_pos = 0 THEN None
  ELSE Str(LineUpTo(header, from, FindFrom(header, <<"\n">>, from)))

\* backend.text_processing.extract_citation: the rest of the line after the
\* first '## '
backend_extract_citation(header) ==
  LineAfter(header, FindFrom(header, START_MARKER, 1), FindFrom(header, START_MARKER, 1) + Len(START_MARKER))

\* backend.text_processing.get_metadata_from_citation: {} when the parser
\* raises or gives nothing, and else its fields under the citation as given;
\* parse is what legal_citation_parser.parse_citation does
backend_get_metadata_from_citation(citation, parse) ==
  IF parse.kind = "raise" THEN EmptyDict
  ELSE IF ~PyBool(parse.value) THEN EmptyDict
  ELSE Dict([k \in PLAIN_FIELDS |-> Get(parse.value, k, None)]
            @@ [citation |-> Str(citation),
                case_id |-> Get(parse.value, "uid", None),
                keywords |-> Get(parse.value, "keywords", EmptyList),
                categories |-> Get(parse.value, "categories", EmptyList)])

\* [p.strip() for p in chunks]
StripEach(chunks) == SubSeq([i \in 1..Len(chunks) |-> Str(Strip(chunks[i]))], 1, Len(chunks))

\* [p.strip() for p in body.split("\n__\n") if p.strip()]
BodyParagraphs(body) == StripEach(SelectSeq(SplitOn(body, TARGET_STRING), NotBlank))

\* header.splitlines()[0] of a header that is not empty
FirstLineUpTo(header, newline) ==
  IF newline = 0 THEN header ELSE SubSeq(header, 1, newline - 1)
FirstLine(header) == FirstLineUpTo(header, FindFrom(header, <<"\n">>, 1))

\* the first line of the header, trimmed, and '' for no header
CitationLine(header) == IF header = <<>> THEN <<>> ELSE Strip(FirstLine(header))

\* the citation line without a leading '# '
CitationOfLine(citation_line) ==
  IF StartsWith(citation_line, <<"#", " ">>) THEN Strip(Tail2(citation_line, 2))
  ELSE citation_line

\* the mapping extract_markdown returns
MarkdownExtract(citation, header, body_paragraphs, parse) ==
  Dict([citation |-> Str(citation),
        citation_metadata |-> backend_get_metadata_from_citation(citation, parse),
        cleaned_header |-> Str(header),
        body_paragraphs |-> List(body_paragraphs),
        statistics |-> Dict([paragraph_count |-> PyInt(Len(body_paragraphs))])])

\* extract_markdown from the header and the body on
ExtractParts(parts, parse) ==
  MarkdownExtract(CitationOfLine(CitationLine(parts[1])), parts[1], BodyParagraphs(parts[2]), parse)

\* backend.main.extract_markdown
extract_markdown(html, parse) ==
  ExtractParts(backend_split_header_and_body(clean_header(html_to_markdown(html)), TARGET_STRING), parse)

\* ----------------------------------------------------------------- inputs
RECURSIVE Concats(_, _)
Concats(T, n) ==
  IF n = 0 THEN {<<>>}
  ELSE LET P == Concats(T, n - 1) IN P \cup {p \o t : p \in P, t \in T}

RawValues(strings) == {None, NaN} \cup {Str(s) : s \in strings}

UidTokens == {<<"x">>, <<"7">>, <<"_">>, <<" ">>}
UidExample3 ==
  <<"2", "0", "2", "4", "m", "b", "p", "c", "9", "6", "_",
    "N", "o", "n", "e", "_", "1">>
UidExample4 == UidExample3 \o <<"_", "a">>
UidInputs ==
  RawValues(Concats(UidTokens, MaxTokens) \cup {UidExample3, UidExample4,
            <<"x", "_", "7", "_", "x", "_", "7">>,
            <<"x", "_", "7", "_", "x", "_", "7", "_", "x">>})

\* offence: codes and reference tables as read_csv loads them, a blank
\* offence_name cell being NaN
C101 == <<"1", "0", "1">>
OffenceTokens == {CC, <<"_">>, C101, YCJA_MARK}
OffenceExamples ==
  {CC_U \o C101 \o YCJA_MARK,
   CC \o YCJA_MARK \o <<"_">> \o C101,
   CC_U \o <<"9", "9", "9">> \o YCJA_MARK,
   <<" ">> \o CC_U \o C101 \o <<" ">>}
OffenceInputs ==
  RawValues(Concats(OffenceTokens, MaxTokens) \cup OffenceExamples)

TEST_OFFENCE == <<"T", "e", "s", "t">>
TableRows ==
  {[section |-> sec, offence_name |-> name] :
     sec \in {CC_U \o C101, CC \o C101}, name \in {Str(TEST_OFFENCE), NaN}}

RECURSIVE SeqsUpTo(_, _)
SeqsUpTo(S, n) ==
  IF n = 0 THEN {<<>>}
  ELSE LET P == SeqsUpTo(S, n - 1) IN P \cup {p \o <<x>> : p \in P, x \in S}

Tables == SeqsUpTo(TableRows, MaxRows)

\* jail: free text, and strings written from (number, unit) pairs
JailTokens ==
  {<<"1", "y">>, <<"1", "2", "m">>, <<"3", "d">>, <<"&">>, <<" ">>,
   <<"n", "/", "a">>, <<"1", ".", "5">>, <<"Y">>, INDETERMINATE,
   <<"I", "n", "d", "e", "t", "e", "r", "m", "i", "n", "a", "t", "e">>}
JailInputs == RawValues(Concats(JailTokens, MaxTokens))

JailPairs ==
  {[whole |-> w, frac |-> f, unit |-> u] :
     w \in {1, 3, 12}, f \in {"", "0", "5"}, u \in {"y", "m", "d"}}
Pair(w, f, u) == [whole |-> w, frac |-> f, unit |-> u]
Example548 == <<Pair(1, "", "y"), Pair(6, "", "m"), Pair(3, "", "d")>>
PairSeqs == (SeqsUpTo(JailPairs, MaxPairs) \ {<<>>}) \cup {Example548}

WritePair(p) ==
  DigitsOf(p.whole) \o (IF p.frac = "" THEN <<>> ELSE <<".", p.frac>>)
  \o <<p.unit>>

RECURSIVE JoinPairs(_)
JoinPairs(ps) ==
  IF Len(ps) = 1 THEN WritePair(ps[1])
  ELSE WritePair(Head(ps)) \o <<"&">> \o JoinPairs(Tail(ps))

JailFixtures ==
  {[raw |-> v, pairs |-> <<>>] : v \in JailInputs}
  \cup {[raw |-> Str(JoinPairs(ps)), pairs |-> ps] : ps \in PairSeqs}

DateTokens == {<<"2", "4">>, <<"&">>, <<" ">>, <<"-">>}
DateInputs == RawValues(Concats(DateTokens, MaxTokens))

ModeTokens == {<<"j">>, <<"c">>, <<"-">>, <<" ">>}
ModeInputs == RawValues(Concats(ModeTokens, MaxTokens))

ConditionsTokens ==
  {<<"1", "8">>, <<"m">>, <<"-">>, <<" ">>, <<"l", "t", "s", "o">>,
   <<"P", "r", "o", "b", "a", "t", "i", "o", "n">>, <<"0", "Y">>, <<".", "5">>}
PROBATION_18M ==
  <<"1", "8", "m", "-", "p", "r", "o", "b", "a", "t", "i", "o", "n">>
ConditionsInputs ==
  RawValues(Concats(ConditionsTokens, MaxTokens) \cup {PROBATION_18M})

FineTokens ==
  {<<"$">>, <<",">>, <<"1">>, <<"0">>, <<".", "5">>, <<" ">>, <<"x">>, <<"-">>,
   <<"n", "a", "n">>, <<"I", "n", "f">>}
FineExamples == {Str(<<"$", "1", ",", "0", "0", "0">>), PyInt(1000)}
FineInputs == RawValues(Concats(FineTokens, MaxTokens)) \cup FineExamples

AppealTokens == {<<"s", "k">>, <<"u", "p">>, <<"_">>, <<" ">>}
AppealInputs == RawValues(Concats(AppealTokens, MaxTokens))

\* rows of the master table: the row of the end-to-end test with one field
\* at a time given each of its values, the parsers being applied field by
\* field
EXAMPLE_JAIL == <<"1", "y", "&", "6", "m", "&", "3", "d">>
BaseRow ==
  [uid |-> Str(UidExample4),
   offence |-> Str(CC_U \o C101),
   date |-> Str(<<"2", "4", "-", "2", "4">>),
   jail |-> Str(EXAMPLE_JAIL),
   mode |-> Str(<<"j", "-", "c">>),
   conditions |-> Str(PROBATION_18M),
   fine |-> Str(<<"1", "0", "0", "0">>),
   appeal |-> Str(<<"s", "k", "_", "u", "p">>)]

RowFieldValues ==
  [uid |-> {NaN, Str(<<"x", "_", "7">>)},
   offence |-> {NaN, Str(<<>>), Str(C101), Str(CC_U \o C101 \o YCJA_MARK),
                Str(<<"9", "9", "9">>)},
   date |-> {None, Str(<<"2", "4", "&", "2", "4">>)},
   jail |-> {NaN, Str(<<>>), Str(INDETERMINATE), Str(<<"n", "/", "a">>),
             Str(<<"1", "2", "m">>)},
   mode |-> {Str(<<>>), Str(<<"j">>)},
   conditions |->
     {NaN, Str(<<>>), Str(<<"x">>), Str(<<"1", "d">>), Str(<<"1", ".", "0", "Y">>),
      Str(<<"0", "y", "-">> \o DISCHARGE),
      Str(<<"1", "m", "-", "D", "i", "s", "c", "h", "a", "r", "g", "e">>),
      Str(DISCHARGE \o <<"-", "0", ".", "5", "d">>),
      Str(<<"l", "t", "s", "o", "-", "1", "0", "y">>)},
   fine |-> {None, Str(<<"$", "1", ",", "0", "0", "0">>), Str(<<"x">>)},
   appeal |-> {Str(<<>>), Str(<<"s", "k">>)}]

FieldNames == {FIELDS[i] : i \in 1..Len(FIELDS)}

FullRows ==
  {BaseRow} \cup
  UNION {{[BaseRow EXCEPT ![f] = v] : v \in RowFieldValues[f]} :
           f \in FieldNames}

\* the columns a Series or dict holds: all, all but one, none
KeySets == {FieldNames, {}} \cup {FieldNames \ {f} : f \in FieldNames}

RowInputs ==
  {RowData(shape, [f \in keys |-> full[f]]) :
     shape \in {"Series", "dict"}, keys \in KeySets, full \in FullRows}
  \cup {RowData(shape, [i \in 1..n |-> full[FIELDS[i]]]) :
          shape \in {"tuple", "list"}, n \in 0..Len(FIELDS), full \in FullRows}
  \cup {RowData(shape, <<>>) : shape \in {"str", "int", "NoneType"}}

\* the offences file of a process invocation: unreadable, or holding a table
OffencesFiles ==
  {OffencesFile(FALSE, <<>>)} \cup
  {OffencesFile(TRUE, rows) :
     rows \in {<<>>,
               <<[section |-> CC_U \o C101, offence_name |-> Str(TEST_OFFENCE)]>>,
               <<[section |-> CC \o C101, offence_name |-> Str(TEST_OFFENCE)]>>,
               <<[section |-> CC_U \o C101, offence_name |-> NaN]>>}}

\* what the relation call can meet
CITATION == <<"2", "0", "2", "4", " ", "S", "K", "C", "A", " ", "7", "9">>
COURT == <<"S", "K", "C", "A">>
CASE_UID == <<"2", "0", "2", "4", "s", "k", "c", "a", "-", "7", "9">>
API_KEYS == {None, Str(<<>>), Str(<<"k">>)}
CaseRefTypes == {"citedCases", "citingCases", "citedLegislations"}
Citations == {<<>>, <<"x">>, CITATION}
CASE_1 == Dict([caseId |-> Str(<<"1">>)])
CASE_2 == Dict([caseId |-> Str(<<"2">>)])
LAW_1 == Dict([legislationId |-> Str(<<"3">>)])
CITATION_METADATA == Dict([title |-> Str(<<"R">>)])
PARSER_ERROR ==
  <<"u", "n", "s", "u", "p", "p", "o", "r", "t", "e", "d", " ", "c", "i",
    "t", "a", "t", "i", "o", "n">>
TIMED_OUT == <<"t", "i", "m", "e", "d", " ", "o", "u", "t">>
BAD_JSON ==
  <<"E", "x", "p", "e", "c", "t", "i", "n", "g", " ", "v", "a", "l", "u",
    "e">>

ParseOutcomes ==
  { RaiseMsg("Exception", PARSER_ERROR),
    Return(None),
    Return(EmptyDict),
    Return(Dict([court |-> Str(COURT)])),
    Return(Dict([court |-> None, uid |-> Str(CASE_UID)])),
    Return(Dict([court |-> Str(COURT), uid |-> Str(CASE_UID)])),
    Return(Dict([court |-> Str(COURT), uid |-> Str(CASE_UID),
                 metadata |-> None])),
    Return(Dict([court |-> Str(COURT), uid |-> Str(CASE_UID),
                 metadata |-> CITATION_METADATA])) }

JsonOutcomes ==
  { RaiseMsg("JSONDecodeError", BAD_JSON),
    Return(EmptyList),
    Return(EmptyDict),
    Return(Dict([citingCases |-> List(<<CASE_1>>)])),
    Return(Dict([citingCases |-> List(<<CASE_1, CASE_2>>),
                 citedCases |-> List(<<CASE_2>>),
                 citedLegislations |-> List(<<LAW_1>>)])) }

StatusCodes == {201, 404, 429, 500}

ResponseOutcomes ==
  { RaiseMsg("Timeout", TIMED_OUT) }
  \cup { Return(Response(status_code, Return(EmptyDict))) :
           status_code \in StatusCodes }
  \cup { Return(Response(200, json)) : json \in JsonOutcomes }

RelEnvs ==
  { RelEnv(api_key, parse, response) :
      api_key \in API_KEYS, parse \in ParseOutcomes,
      response \in ResponseOutcomes }

\* markdown texts: the pieces a converted decision is made of
CITATION_LINE ==
  <<"#", "#", " ", "R", " ", "v", " ", "X", ",", " ", "2", "0", "2", "4",
    " ", "S", "K", "C", "A", " ", "7", "9", " ", "*", " ", "\n">>
DocTokens == {TARGET_STRING, CITATION_LINE, BACK_TO_TOP, <<" ">>, <<"a">>}
SECTIONS ==
  <<"#", "#", "#", " ", "L", "e", "g", "i", "s", "l", "a", "t", "i", "o",
    "n", "\n", "C", "o", "d", "e", "\n", "#", "#", "#", " ", "D", "e", "c",
    "i", "s", "i", "o", "n", "s", "\n", "R", " ", "v", " ", "Y", "\n", "C",
    "i", "t", "a", "t", "i", "o", "n", "s", " ", "_", "_", "\n", "#", "#",
    "#", " ", "F", "a", "c", "t", "s", "\n", "F", "\n", "_", "G", "e", "n",
    "e", "r", "a", "t", "e", "d", " ", "o", "n">>
SECTIONS_FR ==
  <<"#", "#", "#", " ", "L", "é", "g", "i", "s", "l", "a", "t", "i",
    "o", "n", "\n", "#", "#", "#", " ", "D", "é", "c", "i", "s", "i",
    "o", "n", "s", "\n", " ", "R", " ", "v", " ", "Y", " ", "\n", " ", "#",
    "#", "#", " ", "Z">>
DocExamples ==
  {<<"h">> \o TARGET_STRING \o FR_MARKER \o CITATION_LINE \o SECTIONS
     \o TARGET_STRING \o <<"b", " ", " ", "b", "\n", " ", "\n">> \o BACK_TO_TOP
     \o <<"f">>,
   TARGET_STRING \o CITATION_LINE \o SECTIONS_FR \o TARGET_STRING}
Markdowns == Concats(DocTokens, MaxDocTokens) \cup DocExamples

\* what the document processors can meet: decisions on disk and the
\* collaborators of the relation calls
REPORTED ==
  <<"a">> \o TARGET_STRING \o <<"b">> \o TARGET_STRING \o <<"c">>
  \o TARGET_STRING \o ENG_MARKER \o CITATION_LINE \o <<"x">> \o TARGET_STRING
  \o <<"b", "o", "d", "y">> \o BACK_TO_TOP
UNCITED ==
  <<"a">> \o TARGET_STRING \o <<"b">> \o TARGET_STRING \o <<"c">>
  \o TARGET_STRING \o <<"d">> \o TARGET_STRING \o <<"b", "o", "d", "y">>
Pages == {Html(REPORTED), Html(UNCITED), Html(CITATION_LINE)}
CASE_HTML == <<"c", ".", "h", "t", "m", "l">>
FileNames == {<<"c">>, CASE_HTML,<<" ", "C", ".", "H", "T", "M", "L", " ">>,<<"d", "a", "t", "a", "/", "h", "t", "m", "l", "/", "c">>}
FileSystems ==
  {<<>>}
  \cup {(CASE_HTML :> Html(REPORTED))}
  \cup {(DATA_HTML \o CASE_HTML :> page) : page \in Pages}
  \cup {(CASE_HTML :> page) @@ (DATA_HTML \o CASE_HTML :> page) : page \in Pages}
STYLE_OF_CAUSE == <<"R", " ", "v", " ", "X">>
DocParseOutcomes ==
  { RaiseMsg("Exception", PARSER_ERROR),
    Return(None),
    Return(Dict([court |-> Str(COURT), uid |-> Str(CASE_UID)])),
    Return(Dict([court |-> Str(COURT), court_name |-> Str(COURT),
                 style_of_cause |-> Str(STYLE_OF_CAUSE),
                 atomic_citation |-> Str(CITATION)])) }
DocResponseOutcomes ==
  { RaiseMsg("Timeout", TIMED_OUT),
    Return(Response(429, Return(EmptyDict))),
    Return(Response(200, Return(Dict([citingCases |-> List(<<CASE_1>>),
      citedCases |-> List(<<CASE_2, Dict([title |-> Str(<<" ">>)])>>)])))) }
DocEnv(parse, response, files) == [kind |-> "doc", api_key |-> Str(<<"k">>), parse |-> parse, response |-> response, files |-> files]
DocEnvs ==
  { DocEnv(parse, response, files) :
      parse \in DocParseOutcomes, response \in DocResponseOutcomes,
      files \in FileSystems }

\* texts handed to the text functions: concatenations of at most
\* MaxTextTokens tokens, and documents of more chunks
FIVE_CHUNKS ==
  <<"a">> \o TARGET_STRING \o <<" ">> \o TARGET_STRING \o <<"b">>
  \o TARGET_STRING \o <<"c">> \o TARGET_STRING \o ENG_MARKER \o <<"d", " ">>
  \o TARGET_STRING \o <<"e">> \o TARGET_STRING \o <<"f">>
THREE_CHUNKS ==
  <<"a">> \o TARGET_STRING \o <<"b">> \o TARGET_STRING \o <<"c">>
SplitTokens == {TARGET_STRING, <<"a">>, <<" ">>, <<"\n">>}
SplitInputs ==
  Concats(SplitTokens, MaxTextTokens) \cup {FIVE_CHUNKS, THREE_CHUNKS, REPORTED, UNCITED}

TextFunctions == {"split_header_and_body", "clean_header", "extract_citation", "extract_markdown", "clean_text_section", "get_cited_legislation"}
UNFINISHED_MARKER == SubSeq(ENG_MARKER, 1, Len(ENG_MARKER) - 1)
HeaderTokens == {ENG_MARKER, FR_MARKER, <<"a">>, <<" ">>}
HeaderInputs == Concats(HeaderTokens, MaxTextTokens) \cup {UNFINISHED_MARKER \o <<"a">>}

CitationTokens == {START_MARKER, END_MARKER, <<"a">>, <<" ">>, <<"\n">>}
CitationInputs == Concats(CitationTokens, MaxTextTokens) \cup {CITATION_LINE}

TAGGED_A == <<"[", "1", "]", " ", "a">>
TAG_ONLY == <<"[", "2", "]">>
ParagraphTokens == {TARGET_STRING, TAGGED_A, TAG_ONLY, <<"a">>, <<" ">>}
FOUR_PARAGRAPHS ==
  <<"#", " ", "R", "\n", "h">> \o TARGET_STRING \o TAGGED_A \o TARGET_STRING
  \o <<" ">> \o TARGET_STRING \o <<" ", "b", " ">> \o TARGET_STRING
  \o <<"[", "1", "2", "]", " ", "c">> \o TARGET_STRING \o <<"a", "[", "3", "]", " ">>
ParagraphInputs == Concats(ParagraphTokens, MaxTextTokens) \cup {FOUR_PARAGRAPHS}

CleanTokens == {<<"a", " ">>, <<"\n">>, <<"_", "_">>, <<" ">>, <<"\t">>, <<"a">>}
CleanInputs == Concats(CleanTokens, MaxTextTokens) \cup DocExamples

Modules == {"case_data_processing", "backend"}
TextArg(module, text) == [module |-> module, text |-> text]

\* ------------------------------------------------ the command line (cli.py)
\* the master table as load_master_csv gives it: the set of its columns and
\* its rows, each a mapping from the columns
MasterFrame(columns, rows) == [columns |-> columns, rows |-> rows]

REQUIRED_COLUMNS == {FIELDS[i] : i \in 1..Len(FIELDS)}

\* validate_master_schema(df): the required columns df lacks, and the
\* columns it has beyond them
validate_master_schema(df) ==
  [missing |-> REQUIRED_COLUMNS \ df.columns,
   extra |-> df.columns \ REQUIRED_COLUMNS]

\* the arguments of the command line
CliArgs(row_index, validate_only, quiet) == [row_index |-> row_index, validate_only |-> validate_only, quiet |-> quiet]

\* how a run ends: what run_cli returns or raises, the messages it has
\* printed, the index of the row it handed to process_master_row (None when
\* it handed none), and the files it has written
CliOutcome(result, printed, row, written) == [result |-> result, printed |-> printed, row |-> row, written |-> written]

UNEXPECTED_VERBOSE ==
  <<"p", "r", "o", "c", "e", "s", "s", "_", "m", "a", "s", "t", "e", "r",
    "_", "r", "o", "w", "(", ")", " ", "g", "o", "t", " ", "a", "n", " ",
    "u", "n", "e", "x", "p", "e", "c", "t", "e", "d", " ", "k", "e", "y",
    "w", "o", "r", "d", " ", "a", "r", "g", "u", "m", "e", "n", "t", " ",
    "'", "v", "e", "r", "b", "o", "s", "e", "'">>
SENTENCING_DATA_DIR ==
  <<".", "/", "d", "a", "t", "a", "/", "j", "s", "o", "n", "/", "s", "e",
    "n", "t", "e", "n", "c", "i", "n", "g", "-", "d", "a", "t", "a", "/">>
JSON_SUFFIX == <<".", "j", "s", "o", "n">>

\* process_master_row(row, offences_file=..., verbose=...): the function
\* takes no `verbose`, so the call raises before its body runs
process_master_row_verbose(row_data, offences_file, verbose) ==
  RaiseMsg("TypeError", UNEXPECTED_VERBOSE)

\* uid.get(key) or "unknown"
PartOrUnknown(part) == IF PyBool(part) THEN part.s ELSE UNKNOWN

\* the path of the output file for the uid parsed
SentencingPath(uid) ==
  SENTENCING_DATA_DIR
  \o Join(<<PartOrUnknown(uid.case_id), PartOrUnknown(uid.docket),
            PartOrUnknown(uid.count), PartOrUnknown(uid.defendant)>>, <<"_">>)
  \o JSON_SUFFIX

\* ClampedIndex without the floor of 0
ClampedIndex_NoFloor(row_index, rows) ==
  IF row_index < rows - 1 THEN row_index ELSE rows - 1

\* max(0, min(args.row_index, len(df) - 1))
ClampedIndex(row_index, rows) ==
  IF row_index < 0 THEN 0
  ELSE IF row_index < rows - 1 THEN row_index
  ELSE rows - 1

\* df.iloc[row_index], an index below 0 counting from the end
RowAt(df, row_index) ==
  RowData("Series", df.rows[IF row_index < 0 THEN Len(df.rows) + row_index + 1 ELSE row_index + 1])

\* run_cli from the return of process_master_row on
CliParsed(args, printed, row_index, parsed) ==
  IF parsed.kind = "raise" THEN CliOutcome(parsed, printed, PyInt(row_index), {})
  ELSE CliOutcome(Return(PyInt(0)),
         IF args.quiet THEN printed ELSE printed \o <<"Wrote parsed output">>,
         PyInt(row_index), {SentencingPath(parsed.value.uid)})

\* run_cli from the row index on
CliRow(args, df, offences_file, printed, row_index) ==
  CliParsed(args, printed, row_index,
    process_master_row_verbose(RowAt(df, row_index), offences_file, ~args.quiet))

\* run_cli after the schema has passed
CliValidated(args, df, offences_file, printed) ==
  IF args.validate_only
  THEN CliOutcome(Return(PyInt(0)), printed \o <<"Schema validation passed.">>, None, {})
  ELSE IF df.rows = <<>>
  THEN CliOutcome(Return(PyInt(1)), printed \o <<"Master CSV is empty.">>, None, {})
  ELSE CliRow(args, df, offences_file, printed, ClampedIndex(args.row_index, Len(df.rows)))

\* run_cli from the schema on
CliSchema(args, df, offences_file, schema) ==
  IF schema.missing # {}
  THEN CliOutcome(Return(PyInt(1)), <<"Missing columns">>, None, {})
  ELSE CliValidated(args, df, offences_file,
         IF schema.extra # {} THEN <<"Extra columns">> ELSE <<>>)

\* cli.run_cli: df is what load_master_csv(args.master) gives
run_cli(args, df, offences_file) ==
  CliSchema(args, df, offences_file, validate_master_schema(df))

\* the master tables a run can meet: with every column, with one more, with
\* one missing, and with none; the rows hold a value for each column
EXTRA_COL == "extra_col"
ColumnSets ==
  {REQUIRED_COLUMNS, REQUIRED_COLUMNS \cup {EXTRA_COL}, REQUIRED_COLUMNS \ {"jail"},
   (REQUIRED_COLUMNS \ {"uid"}) \cup {EXTRA_COL}, {}}
MasterRows == {BaseRow, [BaseRow EXCEPT !.jail = Str(<<"n", "/", "a">>)]}
RowOver(columns, row) ==
  [c \in columns |-> IF c \in DOMAIN row THEN row[c] ELSE Str(<<"x">>)]
RowsOver(columns, rows) ==
  SubSeq([i \in 1..Len(rows) |-> RowOver(columns, rows[i])], 1, Len(rows))
MasterFrames ==
  { MasterFrame(columns, RowsOver(columns, rows)) :
      columns \in ColumnSets, rows \in SeqsUpTo(MasterRows, MaxRows) }
CommandLines ==
  { CliArgs(row_index, validate_only, quiet) :
      row_index \in (0 - 1)..MaxRows, validate_only \in BOOLEAN, quiet \in BOOLEAN }
CliEnv(master) == [kind |-> "cli", master |-> master, written |-> {}]

\* ------------------------- legislation cited (reference_processing.py)
CRIMINAL_CODE_URL ==
  <<"/", "e", "n", "/", "c", "a", "/", "l", "a", "w", "s", "/", "s", "t",
    "a", "t", "/", "r", "s", "c", "-", "1", "9", "8", "5", "-", "c", "-",
    "c", "-", "4", "6", "/", "l", "a", "t", "e", "s", "t", "/", "r", "s",
    "c", "-", "1", "9", "8", "5", "-", "c", "-", "c", "-", "4", "6", ".",
    "h", "t", "m", "l">>
CDSA_URL ==
  <<"/", "e", "n", "/", "c", "a", "/", "l", "a", "w", "s", "/", "s", "t",
    "a", "t", "/", "s", "c", "-", "1", "9", "9", "6", "-", "c", "-", "1",
    "9", "/", "l", "a", "t", "e", "s", "t", "/", "s", "c", "-", "1", "9",
    "9", "6", "-", "c", "-", "1", "9", ".", "h", "t", "m", "l">>
CHARTER_URL ==
  <<"/", "e", "n", "/", "c", "a", "/", "l", "a", "w", "s", "/", "s", "t",
    "a", "t", "/", "s", "c", "h", "e", "d", "u", "l", "e", "-", "b", "-",
    "t", "o", "-", "t", "h", "e", "-", "c", "a", "n", "a", "d", "a", "-",
    "a", "c", "t", "-", "1", "9", "8", "2", "-", "u", "k", "-", "1", "9",
    "8", "2", "-", "c", "-", "1", "1", "/", "l", "a", "t", "e", "s", "t",
    "/", "s", "c", "h", "e", "d", "u", "l", "e", "-", "b", "-", "t", "o",
    "-", "t", "h", "e", "-", "c", "a", "n", "a", "d", "a", "-", "a", "c",
    "t", "-", "1", "9", "8", "2", "-", "u", "k", "-", "1", "9", "8", "2",
    "-", "c", "-", "1", "1", ".", "h", "t", "m", "l">>
CRIMINAL_RECORDS_URL ==
  <<"/", "e", "n", "/", "c", "a", "/", "l", "a", "w", "s", "/", "s", "t",
    "a", "t", "/", "r", "s", "c", "-", "1", "9", "8", "5", "-", "c", "-",
    "c", "-", "4", "7", "/", "l", "a", "t", "e", "s", "t", "/", "r", "s",
    "c", "-", "1", "9", "8", "5", "-", "c", "-", "c", "-", "4", "7", ".",
    "h", "t", "m", "l">>
IRPA_URL ==
  <<"/", "e", "n", "/", "c", "a", "/", "l", "a", "w", "s", "/", "s", "t",
    "a", "t", "/", "s", "c", "-", "2", "0", "0", "1", "-", "c", "-", "2",
    "7", "/", "l", "a", "t", "e", "s", "t", "/", "s", "c", "-", "2", "0",
    "0", "1", "-", "c", "-", "2", "7", ".", "h", "t", "m", "l">>
CRIMINAL_CODE ==
  <<"C", "r", "i", "m", "i", "n", "a", "l", " ", "C", "o", "d", "e">>
CDSA ==
  <<"C", "o", "n", "t", "r", "o", "l", "l", "e", "d", " ", "D", "r", "u",
    "g", "s", " ", "a", "n", "d", " ", "S", "u", "b", "s", "t", "a", "n",
    "c", "e", "s", " ", "A", "c", "t">>
CHARTER == <<"C", "h", "a", "r", "t", "e", "r">>
CRIMINAL_RECORDS_ACT ==
  <<"C", "r", "i", "m", "i", "n", "a", "l", " ", "R", "e", "c", "o", "r",
    "d", "s", " ", "A", "c", "t">>
IRPA ==
  <<"I", "m", "m", "i", "g", "r", "a", "t", "i", "o", "n", " ", "a", "n",
    "d", " ", "R", "e", "f", "u", "g", "e", "e", " ", "P", "r", "o", "t",
    "e", "c", "t", "i", "o", "n", " ", "A", "c", "t">>
LAWS == <<"l", "a", "w", "s">>
SMOOTH == <<"_", "s", "m", "o", "o", "t", "h">>

_LEGISLATION ==
  (CRIMINAL_CODE_URL :> CRIMINAL_CODE) @@ (CDSA_URL :> CDSA)
  @@ (CHARTER_URL :> CHARTER) @@ (CRIMINAL_RECORDS_URL :> CRIMINAL_RECORDS_ACT)
  @@ (IRPA_URL :> IRPA)

\* sorted(set(...)) of a set of numbers
SortedSeq(S) ==
  SubSeq([i \in 1..Cardinality(S) |-> CHOOSE x \in S : Cardinality({ y \in S : y < x }) = i - 1],
         1, Cardinality(S))

\* markdown_link_regex, \[([^\]]+)\]\(([^)]+)\), tried at i: the index of the
\* ")" that ends the match, 0 when there is no match at i; close is the first
\* "]" after i
LinkEndFrom(paragraph, i, close) ==
  IF close < i + 2 \/ close + 3 > Len(paragraph) THEN 0
  ELSE IF paragraph[close + 1] # "(" THEN 0
  ELSE IF paragraph[close + 2] = ")" THEN 0
  ELSE FindFrom(paragraph, <<")">>, close + 3)
LinkEnd(paragraph, i) ==
  IF paragraph[i] # "[" THEN 0
  ELSE LinkEndFrom(paragraph, i, FindFrom(paragraph, <<"]">>, i + 1))

\* markdown_link_regex.finditer(paragraph), from the index `from` on: group 2
\* of each match
RECURSIVE LinksFrom(_, _)
LinkAt(paragraph, start, close, end) ==
  <<SubSeq(paragraph, close + 2, end - 1)>> \o LinksFrom(paragraph, end + 1)
LinksAt(paragraph, start) ==
  IF start = 0 THEN <<>>
  ELSE LinkAt(paragraph, start, FindFrom(paragraph, <<"]">>, start + 1), LinkEnd(paragraph, start))
LinksFrom(paragraph, from) ==
  LinksAt(paragraph, FirstOrZero({ i \in from..Len(paragraph) : LinkEnd(paragraph, i) # 0 }))

\* the key of legislation_map for a url without its whitespace that holds
\* "laws": the url cut at its first "#", named by _LEGISLATION when it is
\* there, and the section without "_smooth"
LegislationName(url) == IF url \in DOMAIN _LEGISLATION THEN _LEGISLATION[url] ELSE url
LegislationKeyAt(url, hash) ==
  IF hash = 0 THEN [name |-> LegislationName(url), section |-> None]
  ELSE [name |-> LegislationName(SubSeq(url, 1, hash - 1)),
        section |-> Str(Remove(Tail2(url, hash), SMOOTH))]
LegislationKey(url) == LegislationKeyAt(url, FindFrom(url, <<"#">>, 1))

\* the appends to legislation_map that a paragraph makes, in order
HoldsLaws(url) == Contains(url, LAWS)
Unspaced(urls) == SubSeq([i \in 1..Len(urls) |-> Remove(urls[i], <<" ">>)], 1, Len(urls))
Appended(urls, index) ==
  SubSeq([i \in 1..Len(urls) |-> [key |-> LegislationKey(urls[i]), paragraph |-> index]], 1, Len(urls))
CitedIn(paragraph, index) ==
  Appended(SelectSeq(Unspaced(LinksFrom(paragraph, 1)), HoldsLaws), index)

\* the appends of the paragraphs from index on
RECURSIVE CitedFrom(_, _)
CitedFrom(paragraphs, index) ==
  IF index > Len(paragraphs) THEN <<>>
  ELSE CitedIn(paragraphs[index], index) \o CitedFrom(paragraphs, index + 1)

\* set(...) of a list
Elements(items) == { items[i] : i \in 1..Len(items) }

\* legislation_map[key] after the first loop
ParagraphsOfKey(cited, key) ==
  SelectSeq(SubSeq([i \in 1..Len(cited) |-> IF cited[i].key = key THEN cited[i].paragraph ELSE 0], 1, Len(cited)),
            LAMBDA p : p # 0)

\* with_section[name]: the paragraphs of the entries of name that have a
\* section
WithSection(cited, name) ==
  { cited[i].paragraph : i \in { j \in 1..Len(cited) : cited[j].key.name = name /\ PyBool(cited[j].key.section) } }

\* legislation_map[key] after the second loop: an entry without a section
\* loses the paragraphs of the entries of its name that have one
Filtered(cited, key) ==
  IF key.section = None
  THEN Elements(SelectSeq(ParagraphsOfKey(cited, key), LAMBDA p : p \notin WithSection(cited, key.name)))
  ELSE Elements(ParagraphsOfKey(cited, key))

\* the keys of legislation_map in the order of their first append
KeysOf(cited, firsts) ==
  SubSeq([n \in 1..Len(firsts) |-> cited[firsts[n]].key], 1, Len(firsts))
KeysInOrder(cited) ==
  KeysOf(cited, SortedSeq({ i \in 1..Len(cited) : \A j \in 1..(i - 1) : cited[j].key # cited[i].key }))

\* the tuples returned: one for each key that has paragraphs left
PyInts(numbers) == SubSeq([i \in 1..Len(numbers) |-> PyInt(numbers[i])], 1, Len(numbers))
LegislationTuple(cited, key) ==
  Tuple(<<Str(key.name), key.section, List(PyInts(SortedSeq(Filtered(cited, key))))>>)
TuplesOf(cited, keys) ==
  SubSeq([n \in 1..Len(keys) |-> LegislationTuple(cited, keys[n])], 1, Len(keys))
HasParagraphs(entry) == entry.items[3].items # <<>>
CitedLegislation(cited) ==
  List(SelectSeq(TuplesOf(cited, KeysInOrder(cited)), HasParagraphs))

\* reference_processing.get_cited_legislation
get_cited_legislation(paragraphs) == CitedLegislation(CitedFrom(paragraphs, 1))

\* paragraphs that link to legislation
LINK_CODE ==
  <<"s", "e", "e", " ", "t", "h", "e", " ", "[", "C", "o", "d", "e", "]",
    "(", "/", "e", "n", "/", "c", "a", "/", "l", "a", "w", "s", "/", "s",
    "t", "a", "t", "/", "r", "s", "c", "-", "1", "9", "8", "5", "-", "c",
    "-", "c", "-", "4", "6", "/", "l", "a", "t", "e", "s", "t", "/", "r",
    "s", "c", "-", "1", "9", "8", "5", "-", "c", "-", "c", "-", "4", "6",
    ".", "h", "t", "m", "l", ")">>
LINK_SECTION ==
  <<"u", "n", "d", "e", "r", " ", "[", "s", " ", "7", "1", "8", "]", "(",
    "/", "e", "n", "/", "c", "a", "/", "l", "a", "w", "s", "/", "s", "t",
    "a", "t", "/", "r", "s", "c", "-", "1", "9", "8", "5", "-", "c", "-",
    "c", "-", "4", "6", "/", "l", "a", "t", "e", "s", "t", "/", "r", "s",
    "c", "-", "1", "9", "8", "5", "-", "c", "-", "c", "-", "4", "6", ".",
    "h", "t", "m", "l", "#", "s", "e", "c", "7", "1", "8", "_", "s", "m",
    "o", "o", "t", "h", ")">>
LINK_SECTION_PLAIN ==
  <<"[", "7", "1", "8", "]", "(", "/", "e", "n", "/", "c", "a", "/", "l",
    "a", "w", "s", "/", "s", "t", "a", "t", "/", "r", "s", "c", "-", "1",
    "9", "8", "5", "-", "c", "-", "c", "-", "4", "6", "/", "l", "a", "t",
    "e", "s", "t", "/", "r", "s", "c", "-", "1", "9", "8", "5", "-", "c",
    "-", "c", "-", "4", "6", ".", "h", "t", "m", "l", "#", "s", "e", "c",
    "7", "1", "8", ")">>
LINK_OTHER ==
  <<"[", "A", "c", "t", "]", "(", "/", "e", "n", "/", "s", "k", "/", "l",
    "a", "w", "s", "/", "s", "t", "a", "t", "/", "s", "s", "-", "1", " ",
    "9", "9", "7", "/", "l", "a", "t", "e", "s", "t", "/", "x", ".", "h",
    "t", "m", "l", "#", "s", "e", "c", "2", ")", " ", "[", "n", "o", "t",
    " ", "a", " ", "l", "i", "n", "k", "]", "(", ")">>
LINK_CASE ==
  <<"[", "R", " ", "v", " ", "A", "]", "(", "/", "e", "n", "/", "c", "a",
    "/", "s", "c", "c", "/", "d", "o", "c", "/", "2", "0", "2", "0", "/",
    "2", "0", "2", "0", "s", "c", "c", "1", "/", "2", "0", "2", "0", "s",
    "c", "c", "1", ".", "h", "t", "m", "l", "#", "p", "a", "r", "3", ")">>
NO_LINK ==
  <<"t", "h", "e", " ", "s", "e", "n", "t", "e", "n", "c", "e", " ", "i",
    "s", " ", "f", "i", "t", " ", "[", "1", "2", "]", " ", "(", "s", "e",
    "e", " ", "a", "b", "o", "v", "e", ")">>
CitingParagraphs ==
  {LINK_CODE, LINK_SECTION, LINK_SECTION_PLAIN, LINK_OTHER, LINK_CASE, NO_LINK,
   LINK_CODE \o <<" ">> \o LINK_SECTION, LINK_SECTION \o LINK_SECTION \o LINK_OTHER}
ParagraphLists == SeqsUpTo(CitingParagraphs, MaxParagraphs)

\* the unit of process_conditions_string: the word, with an 's' if
\* time != 1, which None satisfies
StandaloneUnit(unit, time) ==
  IF IsOne(time) THEN UnitWord(unit) ELSE UnitWord(unit) \o <<"s">>

\* process_conditions_string from the parsed components on
ProcessedConditions(parsed) ==
  IF parsed.kind = "raise" THEN parsed
  ELSE Return(Tuple(<<parsed.value.time,
                      Str(StandaloneUnit(parsed.value.unit, parsed.value.time)),
                      ConditionsType(parsed.value.type, parsed.value.time)>>))

\* process_conditions_string
process_conditions_string(conditions_str) ==
  ProcessedConditions(parse_conditions_string(conditions_str))

\* a row that carries the conditions value
RowOfConditions(conditions) == RowData("dict", [BaseRow EXCEPT !.conditions = conditions])

\* ------------------------------------------------------------ state machine
NoTable == <<>>
NoPairs == <<>>
NoFile == [readable |-> FALSE, table |-> <<>>]
NoEnv == [kind |-> "none"]
NoProcs == <<>>

\* the caller before its first call
Idle ==
  /\ pc = "idle"
  /\ op = "none"
  /\ raw = None
  /\ table = NoTable
  /\ pairs = NoPairs
  /\ ret = None
  /\ days = None

Init ==
  /\ Idle
  /\ file = NoFile
  /\ loads = 0
  /\ env = NoEnv
  /\ procs = NoProcs

\* one call of a parser from the idle caller: the argument and what came back
Call(name, value, result) ==
  /\ pc' = "done"
  /\ op' = name
  /\ raw' = value
  /\ ret' = result
  /\ days' = None
  /\ UNCHANGED <<file, loads, env, procs>>

ParseUid ==
  /\ pc = "idle"
  /\ \E v \in UidInputs :
      /\ Call("parse_uid_string", v, parse_uid_string(v))
      /\ UNCHANGED <<table, pairs>>

ParseOffence ==
  /\ pc = "idle"
  /\ \E v \in OffenceInputs, df \in Tables :
      /\ Call("parse_offence_string", v, parse_offence_string(v, df))
      /\ table' = df
      /\ UNCHANGED pairs

ParseDate ==
  /\ pc = "idle"
  /\ \E v \in DateInputs :
      /\ Call("parse_date_string", v, parse_date_string(v))
      /\ UNCHANGED <<table, pairs>>

ParseJail ==
  /\ pc = "idle"
  /\ \E f \in JailFixtures :
      /\ Call("parse_jail_string", f.raw, parse_jail_string(f.raw))
      /\ pairs' = f.pairs
      /\ UNCHANGED table

\* calculate_total_days on what parse_jail_string returned
CalculateTotalDays ==
  /\ pc = "done"
  /\ op = "parse_jail_string"
  /\ ret.kind = "return"
  /\ pc' = "summed"
  /\ days' = calculate_total_days(ret.value)
  /\ UNCHANGED <<op, raw, table, pairs, ret, file, loads, env, procs>>

ParseMode ==
  /\ pc = "idle"
  /\ \E v \in ModeInputs :
      /\ Call("parse_mode_string", v, parse_mode_string(v))
      /\ UNCHANGED <<table, pairs>>

ParseConditions ==
  /\ pc = "idle"
  /\ \E v \in ConditionsInputs :
      /\ Call("parse_conditions_string", v, parse_conditions_string(v))
      /\ UNCHANGED <<table, pairs>>

ParseFine ==
  /\ pc = "idle"
  /\ \E v \in FineInputs :
      /\ Call("parse_fine_string", v, parse_fine_string(v))
      /\ UNCHANGED <<table, pairs>>

ParseAppeal ==
  /\ pc = "idle"
  /\ \E v \in AppealInputs :
      /\ Call("parse_appeal_string", v, parse_appeal_string(v))
      /\ UNCHANGED <<table, pairs>>

\* the caller drops the result and is ready for the next call
Finish ==
  /\ pc \in {"done", "summed"}
  /\ pc' = "idle"
  /\ op' = "none"
  /\ raw' = None
  /\ table' = NoTable
  /\ pairs' = NoPairs
  /\ ret' = None
  /\ days' = None
  /\ UNCHANGED <<file, loads, env, procs>>

Next ==
  \/ ParseUid
  \/ ParseOffence
  \/ ParseDate
  \/ ParseJail
  \/ CalculateTotalDays
  \/ ParseMode
  \/ ParseConditions
  \/ ParseFine
  \/ ParseAppeal
  \/ Finish

Spec == Init /\ [][Next]_vars

\* ---------------------------------------------- a run of the row processor
\* one process invocation: the offences file as it is on disk, and a caller
\* handing rows to process_master_row one after the other
RowInit ==
  /\ Idle
  /\ file \in OffencesFiles
  /\ loads = 0
  /\ env = NoEnv
  /\ procs = NoProcs

\* one call of process_master_row; `loads` counts the reads of the offences
\* file, and an exception ends the caller
ProcessMasterRow ==
  /\ pc = "idle"
  /\ loads < MaxLoads
  /\ \E row_data \in RowInputs :
      /\ op' = "process_master_row"
      /\ raw' = row_data
      /\ ret' = process_master_row(row_data, file)
      /\ pc' = IF process_master_row(row_data, file).kind = "raise"
               THEN "raised" ELSE "done"
      /\ loads' = IF row_data.shape \in ACCEPTED_SHAPES
                     /\ LoadsLookup(RowField(row_data, 2))
                  THEN loads + 1 ELSE loads
  /\ UNCHANGED <<table, pairs, days, file, env, procs>>

\* the caller takes the result and goes on to the next row
NextRow ==
  /\ pc = "done"
  /\ op = "process_master_row"
  /\ pc' = "idle"
  /\ op' = "none"
  /\ raw' = None
  /\ ret' = None
  /\ UNCHANGED <<table, pairs, days, file, loads, env, procs>>

RowNext ==
  \/ ProcessMasterRow
  \/ NextRow

RowSpec == RowInit /\ [][RowNext]_vars

\* ------------------------------------------- a run of the relation calls
\* a caller asking for the relations of citations one after the other, in
\* one environment
RelInit ==
  /\ Idle
  /\ file = NoFile
  /\ loads = 0
  /\ env \in RelEnvs
  /\ procs = NoProcs

RelationCall(citation, caseref_type) == [citation |-> citation, caseref_type |-> caseref_type]

GetCaseRelations ==
  /\ pc = "idle"
  /\ \E citation \in Citations, caseref_type \in CaseRefTypes :
      /\ op' = "get_case_relations"
      /\ raw' = RelationCall(citation, caseref_type)
      /\ ret' = get_case_relations(citation, caseref_type, env)
      /\ pc' = IF get_case_relations(citation, caseref_type, env).kind = "raise"
               THEN "raised" ELSE "done"
  /\ UNCHANGED <<table, pairs, days, file, loads, env, procs>>

GetCitingCases ==
  /\ pc = "idle"
  /\ \E citation \in Citations :
      /\ op' = "get_citing_cases"
      /\ raw' = RelationCall(citation, "citingCases")
      /\ ret' = get_citing_cases(citation, env)
      /\ pc' = IF get_citing_cases(citation, env).kind = "raise"
               THEN "raised" ELSE "done"
  /\ UNCHANGED <<table, pairs, days, file, loads, env, procs>>

\* the caller takes the result and goes on
RelFinish ==
  /\ pc = "done"
  /\ op \in {"get_case_relations", "get_citing_cases"}
  /\ pc' = "idle"
  /\ op' = "none"
  /\ raw' = None
  /\ ret' = None
  /\ UNCHANGED <<table, pairs, days, file, loads, env, procs>>

RelNext ==
  \/ GetCaseRelations
  \/ GetCitingCases
  \/ RelFinish

RelSpec == RelInit /\ [][RelNext]_vars

\* -------------------------------------- a run of the document processors
\* process_text called on pages, and the case-text and generate-report
\* commands run one after the other, over one file system
DocInit ==
  /\ Idle
  /\ file = NoFile
  /\ loads = 0
  /\ env \in DocEnvs
  /\ procs = NoProcs

\* where a call or command that ended with outcome leaves the control
EndedAt(outcome) ==
  CASE outcome.kind = "raise" -> "raised"
    [] outcome.kind = "exit" -> "exited"
    [] OTHER -> "done"

\* the call or command `name`, given `call`, ends with outcome
Ends(name, call, outcome) ==
  /\ op' = name
  /\ raw' = call
  /\ ret' = outcome
  /\ pc' = EndedAt(outcome)

\* the file system after the report of `written` is written over what its
\* path held
Written(files, written) ==
  [path \in DOMAIN files \cup {written.path} |->
     IF path = written.path THEN written.report ELSE files[path]]

\* the environment after generate-report has ended with outcome
EnvAfter(e, outcome) ==
  IF outcome.kind = "exit" THEN e
  ELSE [e EXCEPT !.files = Written(e.files, outcome.written)]

\* generate-report ends with outcome
ReportEnds(call, outcome) ==
  /\ Ends("generate_report_cmd", call, outcome)
  /\ env' = EnvAfter(env, outcome)

TextCall(text, include_header) == [text |-> text, include_header |-> include_header]
CommandLine(filename, include_header, json_output) == [filename |-> filename, include_header |-> include_header, json_output |-> json_output]

ProcessText ==
  /\ pc = "idle"
  /\ \E markdown \in Markdowns, include_header \in BOOLEAN :
       Ends("process_text", TextCall(Html(markdown), include_header),
            process_text(Html(markdown), include_header, env))
  /\ UNCHANGED <<table, pairs, days, file, loads, env, procs>>

CaseTextCmd ==
  /\ pc = "idle"
  /\ \E input_path \in FileNames, include_header, json_output \in BOOLEAN :
       Ends("case_text_cmd", CommandLine(input_path, include_header, json_output),
            case_text_cmd(input_path, include_header, json_output, env))
  /\ UNCHANGED <<table, pairs, days, file, loads, env, procs>>

\* the report is written over what the path held
GenerateReportCmd ==
  /\ pc = "idle"
  /\ \E filename \in FileNames :
       ReportEnds(CommandLine(filename, FALSE, FALSE), generate_report_cmd(filename, env))
  /\ UNCHANGED <<table, pairs, days, file, loads, procs>>

\* the next call or command, after one that has ended without an exception
DocFinish ==
  /\ pc \in {"done", "exited"}
  /\ op \in {"process_text", "case_text_cmd", "generate_report_cmd"}
  /\ pc' = "idle"
  /\ op' = "none"
  /\ raw' = None
  /\ ret' = None
  /\ UNCHANGED <<table, pairs, days, file, loads, env, procs>>

DocNext ==
  \/ ProcessText
  \/ CaseTextCmd
  \/ GenerateReportCmd
  \/ DocFinish

DocSpec == DocInit /\ [][DocNext]_vars

\* ----------------------------------- concurrent calls of the two functions
\* process_master_row and split_header_and_body called by MaxProcs threads
\* at once, each call taken a statement group at a time, over one offences
\* file.  procs.calls[p] is the call thread p is in, and procs.locals[s] the
\* local variables of the call whose frame is s.
Procs == 1..MaxProcs

ConcRows ==
  { RowData("dict", BaseRow),
    RowData("dict", [BaseRow EXCEPT !.offence = Str(C101), !.fine = None]),
    RowData("tuple", <<Str(<<"x", "_", "7">>), NaN>>),
    RowData("int", <<>>) }
ConcDocs ==
  { <<"a">>,
    <<"a">> \o TARGET_STRING,
    <<"h">> \o TARGET_STRING \o ENG_MARKER \o CITATION_LINE \o TARGET_STRING \o <<"b", " ">>,
    <<" ", "x">> \o TARGET_STRING \o <<"y">> \o TARGET_STRING \o <<"z">> \o TARGET_STRING }
ConcFiles ==
  { OffencesFile(FALSE, <<>>),
    OffencesFile(TRUE, <<[section |-> CC_U \o C101, offence_name |-> Str(TEST_OFFENCE)]>>) }

NoCall == [op |-> "none", arg |-> None, pc |-> "idle", ret |-> None]
NoLocals == [values |-> [i \in 1..Len(FIELDS) |-> Str(<<>>)], uid_parsed |-> None, offence_parsed |-> Return(None), first_occurrence |-> 0, second_occurrence |-> 0]

\* every call has a frame of its own
Frame_Shared(self) == 1
Frame(self) == self

Locals(self) == procs.locals[Frame(self)]
CallOf(self) == procs.calls[self]

\* the call goes on to `pc` with its local variables as `locals`
Step(self, pc_, locals) == procs' = [calls |-> [procs.calls EXCEPT ![self].pc = pc_], locals |-> [procs.locals EXCEPT ![Frame(self)] = locals]]

\* the call ends with `outcome`, and its frame goes
End(self, outcome) == procs' = [calls |-> [procs.calls EXCEPT ![self].pc = "done", ![self].ret = outcome], locals |-> [procs.locals EXCEPT ![Frame(self)] = NoLocals]]

ConcInit ==
  /\ Idle
  /\ file \in ConcFiles
  /\ loads = 0
  /\ env = NoEnv
  /\ procs = [calls |-> [p \in Procs |-> NoCall], locals |-> [p \in Procs |-> NoLocals]]

CallProcessMasterRow(self) ==
  /\ CallOf(self).pc = "idle"
  /\ \E row_data \in ConcRows :
       procs' = [procs EXCEPT !.calls[self] = [op |-> "process_master_row", arg |-> row_data, pc |-> "values", ret |-> None]]
  /\ UNCHANGED <<pc, op, raw, table, pairs, ret, days, file, loads, env>>

\* process_master_row, the values of the row
ExtractValues(self) ==
  /\ CallOf(self).op = "process_master_row"
  /\ CallOf(self).pc = "values"
  /\ IF CallOf(self).arg.shape \notin ACCEPTED_SHAPES
     THEN End(self, Raise("ValueError"))
     ELSE Step(self, "offence", [Locals(self) EXCEPT !.values = [i \in 1..Len(FIELDS) |-> RowField(CallOf(self).arg, i)]])
  /\ UNCHANGED <<pc, op, raw, table, pairs, ret, days, file, loads, env>>

\* process_master_row, the uid and the offence, which reads the offences file
LookUpOffence(self) ==
  /\ CallOf(self).op = "process_master_row"
  /\ CallOf(self).pc = "offence"
  /\ IF parse_offence_string_file(Locals(self).values[2], file).kind = "raise"
     THEN End(self, parse_offence_string_file(Locals(self).values[2], file))
     ELSE Step(self, "fields", [Locals(self) EXCEPT !.uid_parsed = parse_uid_string(Locals(self).values[1]).value, !.offence_parsed = parse_offence_string_file(Locals(self).values[2], file)])
  /\ UNCHANGED <<pc, op, raw, table, pairs, ret, days, file, loads, env>>

\* the jail entry of the values of a row
JailOf(values) ==
  JailSection(parse_jail_string(values[4]).value,
    IF /\ parse_jail_string(values[4]).value.kind = "str"
       /\ parse_jail_string(values[4]).value.s = INDETERMINATE
    THEN None
    ELSE calculate_total_days(parse_jail_string(values[4]).value).value)

\* process_master_row, the other fields and the return
ParseFields(self) ==
  /\ CallOf(self).op = "process_master_row"
  /\ CallOf(self).pc = "fields"
  /\ End(self, Return(ParsedRow(
       Locals(self).uid_parsed,
       Locals(self).offence_parsed.value,
       parse_date_string(Locals(self).values[3]).value,
       JailOf(Locals(self).values),
       parse_mode_string(Locals(self).values[5]).value,
       parse_conditions_string(Locals(self).values[6]).value,
       parse_fine_string(Locals(self).values[7]).value,
       parse_appeal_string(Locals(self).values[8]).value)))
  /\ UNCHANGED <<pc, op, raw, table, pairs, ret, days, file, loads, env>>

CallSplitHeaderAndBody(self) ==
  /\ CallOf(self).pc = "idle"
  /\ \E text \in ConcDocs :
       procs' = [procs EXCEPT !.calls[self] = [op |-> "split_header_and_body", arg |-> Str(text), pc |-> "first", ret |-> None]]
  /\ UNCHANGED <<pc, op, raw, table, pairs, ret, days, file, loads, env>>

\* split_header_and_body, the first occurrence of the marker
FindFirst(self) ==
  /\ CallOf(self).op = "split_header_and_body"
  /\ CallOf(self).pc = "first"
  /\ IF FindFrom(CallOf(self).arg.s, TARGET_STRING, 1) = 0
     THEN End(self, Return(<<<<>>, CallOf(self).arg.s>>))
     ELSE Step(self, "second", [Locals(self) EXCEPT !.first_occurrence = FindFrom(CallOf(self).arg.s, TARGET_STRING, 1)])
  /\ UNCHANGED <<pc, op, raw, table, pairs, ret, days, file, loads, env>>

\* split_header_and_body, the second occurrence
FindSecond(self) ==
  /\ CallOf(self).op = "split_header_and_body"
  /\ CallOf(self).pc = "second"
  /\ IF FindFrom(CallOf(self).arg.s, TARGET_STRING, Locals(self).first_occurrence + 1) = 0
     THEN End(self, Return(<<<<>>, CallOf(self).arg.s>>))
     ELSE Step(self, "cut", [Locals(self) EXCEPT !.second_occurrence = FindFrom(CallOf(self).arg.s, TARGET_STRING, Locals(self).first_occurrence + 1)])
  /\ UNCHANGED <<pc, op, raw, table, pairs, ret, days, file, loads, env>>

\* split_header_and_body, the header and the body
CutHeaderAndBody(self) ==
  /\ CallOf(self).op = "split_header_and_body"
  /\ CallOf(self).pc = "cut"
  /\ End(self, Return(<<
       clean_header(Strip(SubSeq(CallOf(self).arg.s, 1, Locals(self).second_occurrence - 1))),
       Strip(Tail2(CallOf(self).arg.s, Locals(self).second_occurrence + Len(TARGET_STRING) - 1))>>))
  /\ UNCHANGED <<pc, op, raw, table, pairs, ret, days, file, loads, env>>

\* the caller takes the result
TakeResult(self) ==
  /\ CallOf(self).pc = "done"
  /\ procs' = [procs EXCEPT !.calls[self] = NoCall]
  /\ UNCHANGED <<pc, op, raw, table, pairs, ret, days, file, loads, env>>

ConcNext ==
  \E self \in Procs :
    \/ CallProcessMasterRow(self)
    \/ ExtractValues(self)
    \/ LookUpOffence(self)
    \/ ParseFields(self)
    \/ CallSplitHeaderAndBody(self)
    \/ FindFirst(self)
    \/ FindSecond(self)
    \/ CutHeaderAndBody(self)
    \/ TakeResult(self)

ConcSpec == ConcInit /\ [][ConcNext]_vars

\* ------------------------------------------- a run of the text functions
\* a caller handing texts to the functions of case_data_processing and to
\* their variants in backend.text_processing
TextInit ==
  /\ Idle
  /\ file = NoFile
  /\ loads = 0
  /\ env = NoEnv
  /\ procs = NoProcs

\* the function `name` of `module`, given text, returns result
Returns(name, module, text, result) ==
  /\ pc' = "done"
  /\ op' = name
  /\ raw' = TextArg(module, text)
  /\ ret' = Return(result)
  /\ UNCHANGED <<table, pairs, days, file, loads, env, procs>>

SplitHeaderAndBody ==
  /\ pc = "idle"
  /\ \E text \in SplitInputs :
       \/ Returns("split_header_and_body", "case_data_processing", text,
                  split_header_and_body(text, TARGET_STRING))
       \/ Returns("split_header_and_body", "backend", text,
                  backend_split_header_and_body(text, TARGET_STRING))

\* clean_header, which is the same function in the two modules
CleanHeader ==
  /\ pc = "idle"
  /\ \E text \in HeaderInputs, module \in Modules :
       Returns("clean_header", module, text, clean_header(text))

ExtractCitation ==
  /\ pc = "idle"
  /\ \E header \in CitationInputs :
       \/ Returns("extract_citation", "case_data_processing", header,
                  Str(extract_citation(Str(header))))
       \/ Returns("extract_citation", "backend", header,
                  backend_extract_citation(header))

\* a request to /extract-markdown; the parser is the collaborator of the
\* metadata lookup
ExtractMarkdown ==
  /\ pc = "idle"
  /\ \E markdown \in ParagraphInputs, parse \in DocParseOutcomes :
       /\ pc' = "done"
       /\ op' = "extract_markdown"
       /\ raw' = [module |-> "backend", text |-> markdown, parse |-> parse]
       /\ ret' = Return(extract_markdown(Html(markdown), parse))
  /\ UNCHANGED <<table, pairs, days, file, loads, env, procs>>

\* clean_text_section, which is the same function in the two modules
CleanTextSection ==
  /\ pc = "idle"
  /\ \E text \in CleanInputs, module \in Modules :
       Returns("clean_text_section", module, text, clean_text_section(text))

GetCitedLegislation ==
  /\ pc = "idle"
  /\ \E paragraphs \in ParagraphLists :
       Returns("get_cited_legislation", "reference_processing", paragraphs,
               get_cited_legislation(paragraphs))

\* the caller takes the result
TextFinish ==
  /\ pc = "done"
  /\ op \in TextFunctions
  /\ pc' = "idle"
  /\ op' = "none"
  /\ raw' = None
  /\ ret' = None
  /\ UNCHANGED <<table, pairs, days, file, loads, env, procs>>

TextNext ==
  \/ SplitHeaderAndBody
  \/ CleanHeader
  \/ ExtractCitation
  \/ ExtractMarkdown
  \/ CleanTextSection
  \/ GetCitedLegislation
  \/ TextFinish

TextSpec == TextInit /\ [][TextNext]_vars

\* --------------------------------------------------- runs of the command line
\* the master table and the offences file as they are on disk, and runs of
\* run_cli one after the other; `loads` counts the rows handed to
\* process_master_row
CliInit ==
  /\ Idle
  /\ file \in OffencesFiles
  /\ loads = 0
  /\ env \in { CliEnv(master) : master \in MasterFrames }
  /\ procs = NoProcs

\* a run with args ends with outcome
CliEnds(args, outcome) ==
  /\ op' = "run_cli"
  /\ raw' = args
  /\ ret' = outcome
  /\ pc' = IF outcome.result.kind = "raise" THEN "raised" ELSE "exited"
  /\ loads' = IF outcome.row = None THEN loads ELSE loads + 1
  /\ env' = [env EXCEPT !.written = @ \cup outcome.written]

RunCli ==
  /\ pc = "idle"
  /\ loads < MaxLoads
  /\ \E args \in CommandLines : CliEnds(args, run_cli(args, env.master, file))
  /\ UNCHANGED <<table, pairs, days, file, procs>>

\* the next run, after one that has returned its exit code or raised
CliFinish ==
  /\ pc \in {"exited", "raised"}
  /\ op = "run_cli"
  /\ pc' = "idle"
  /\ op' = "none"
  /\ raw' = None
  /\ ret' = None
  /\ UNCHANGED <<table, pairs, days, file, loads, env, procs>>

CliNext ==
  \/ RunCli
  \/ CliFinish

CliSpec == CliInit /\ [][CliNext]_vars

\* ------------------------------- the two post-processors of the conditions
\* a caller that hands a conditions value to process_conditions_string and
\* then a row carrying the same value to process_master_row; `pairs` keeps
\* the triple of the first call
ConditionsInit ==
  /\ Idle
  /\ file \in OffencesFiles
  /\ loads = 0
  /\ env = NoEnv
  /\ procs = NoProcs

ProcessConditionsString ==
  /\ pc = "idle"
  /\ \E conditions_str \in ConditionsInputs :
       /\ op' = "process_conditions_string"
       /\ raw' = conditions_str
       /\ ret' = process_conditions_string(conditions_str)
  /\ pc' = "done"
  /\ UNCHANGED <<table, pairs, days, file, loads, env, procs>>

ProcessRowOfConditions ==
  /\ pc = "done"
  /\ op = "process_conditions_string"
  /\ op' = "process_master_row"
  /\ raw' = RowOfConditions(raw)
  /\ pairs' = ret.value.items
  /\ ret' = process_master_row(RowOfConditions(raw), file)
  /\ pc' = IF process_master_row(RowOfConditions(raw), file).kind = "raise"
           THEN "raised" ELSE "done"
  /\ UNCHANGED <<table, days, file, loads, env, procs>>

\* the caller goes on to the next value
NextConditions ==
  /\ pc = "done"
  /\ op = "process_master_row"
  /\ pc' = "idle"
  /\ op' = "none"
  /\ raw' = None
  /\ ret' = None
  /\ pairs' = NoPairs
  /\ UNCHANGED <<table, days, file, loads, env, procs>>

ConditionsNext ==
  \/ ProcessConditionsString
  \/ ProcessRowOfConditions
  \/ NextConditions

ConditionsSpec == ConditionsInit /\ [][ConditionsNext]_vars

\* ------------------------------------------------------------------ claims
Called(name) == pc \in {"done", "summed"} /\ op = name

\* the raw values every parser takes as absent
AbsentValues == {None, NaN, Str(<<>>)}

\* the two sentinels the specification allows for a defendant that is absent
DefaultSentinels == {Str(<<"a">>), Str(<<"1">>)}

\* C1: every micro-parser returns a value for every raw value and never
\* raises.
C1_MicroParsersTotal == pc \in {"done", "summed"} => ret.kind = "return"

Segment(segments, n) == IF n <= Len(segments) THEN Str(segments[n]) ELSE None

\* C3 as stated: a uid of at most 4 segments gives case_id, docket, count and
\* defendant the segments 1 to 4 in order, an absent segment leaving its field
\* null and an absent 4th segment leaving defendant a default sentinel.
C3_SegmentsInOrder ==
  (Called("parse_uid_string") /\ raw.kind = "str" /\ raw.s # <<>>
   /\ Len(Split(Strip(raw.s), "_")) <= 4) =>
    LET segments == Split(Strip(raw.s), "_")
    IN /\ ret.kind = "return"
       /\ ret.value.case_id = Segment(segments, 1)
       /\ ret.value.docket = Segment(segments, 2)
       /\ ret.value.count = Segment(segments, 3)
       /\ IF Len(segments) = 4
          THEN ret.value.defendant = Segment(segments, 4)
          ELSE ret.value.defendant \in DefaultSentinels

\* C3 as amended: the same, except that a uid of exactly 2 segments is read
\* as case_id and count, its docket null.
C3_SegmentsInOrderButTwo ==
  (Called("parse_uid_string") /\ raw.kind = "str" /\ raw.s # <<>>
   /\ Len(Split(Strip(raw.s), "_")) <= 4) =>
    LET segments == Split(Strip(raw.s), "_")
    IN /\ ret.kind = "return"
       /\ ret.value.case_id = Segment(segments, 1)
       /\ ret.value.docket =
            IF Len(segments) = 2 THEN None ELSE Segment(segments, 2)
       /\ ret.value.count =
            IF Len(segments) = 2 THEN Segment(segments, 2)
            ELSE Segment(segments, 3)
       /\ IF Len(segments) = 4
          THEN ret.value.defendant = Segment(segments, 4)
          ELSE ret.value.defendant \in DefaultSentinels

C3_Witness ==
  /\ Called("parse_uid_string")
  /\ raw = Str(<<"x", "_", "7">>)
  /\ ret.value.case_id = Str(<<"x">>)
  /\ ret.value.docket = None
  /\ ret.value.count = Str(<<"7">>)

\* C4: a uid without a 4th segment gets the defendant "a".
C4_DefaultDefendantIsA ==
  (Called("parse_uid_string") /\ raw.kind = "str" /\ raw.s # <<>>
   /\ Len(Split(Strip(raw.s), "_")) < 4) =>
    (ret.kind = "return" /\ ret.value.defendant = Str(<<"a">>))

\* no (number)(y|m|d) component anywhere in the string
NoComponent(s) ==
  \A i \in 1..Len(Split(s, "&")) :
    FindAllTimeUnits(Strip(Split(s, "&")[i]), 1) = <<>>

\* C5: a blank jail string gives the empty sequence and 0 days; a string
\* that is not blank and holds no component gives a sentinel that is not the
\* empty sequence, and null days.
C5_UnrecognizedIsNotEmpty ==
  (pc = "summed" /\ op = "parse_jail_string") =>
    /\ raw \in AbsentValues =>
         /\ ret.value.kind = "DataFrame" /\ ret.value.rows = <<>>
         /\ days = Return(PyInt(0))
    /\ (raw.kind = "str" /\ raw.s # <<>> /\ NoComponent(Strip(raw.s))
        /\ Lower(Strip(raw.s)) # INDETERMINATE) =>
         /\ ~(ret.value.kind = "DataFrame" /\ ret.value.rows = <<>>)
         /\ days = Return(None)

\* C6: a jail string that is "indeterminate" once trimmed and lower-cased
\* gives the Indeterminate sentinel, whose total of days is null.
C6_Indeterminate ==
  (pc \in {"done", "summed"} /\ op = "parse_jail_string" /\ raw.kind = "str"
   /\ Lower(Strip(raw.s)) = INDETERMINATE) =>
    /\ ret = Return(Str(INDETERMINATE))
    /\ pc = "summed" => days = Return(None)

C6_Witness ==
  /\ pc = "summed"
  /\ op = "parse_jail_string"
  /\ raw = Str(<<" ", "I", "n", "d", "e", "t", "e", "r", "m", "i", "n", "a",
                 "t", "e">>)
  /\ days = Return(None)

\* the day-equivalent of one written pair, from its tenths: 365 a year, 30 a
\* month but 365 for exactly 12 months, 1 a day, truncated
DayEquivalent(p) ==
  LET tenths == 10 * p.whole + (IF p.frac = "5" THEN 5 ELSE 0)
  IN CASE p.unit = "y" -> (tenths * 365) \div 10
       [] p.unit = "m" -> IF tenths = 120 THEN 365 ELSE (tenths * 30) \div 10
       [] p.unit = "d" -> tenths \div 10

RECURSIVE SumOfDayEquivalents(_)
SumOfDayEquivalents(ps) ==
  IF ps = <<>> THEN 0
  ELSE DayEquivalent(Head(ps)) + SumOfDayEquivalents(Tail(ps))

\* C7: for a jail string written from (number)(y|m|d) pairs joined by '&',
\* the total of days is the sum of the pairs' day-equivalents.
C7_TotalDaysIsSum ==
  (pc = "summed" /\ op = "parse_jail_string" /\ pairs # NoPairs) =>
    days = Return(PyInt(SumOfDayEquivalents(pairs)))

C7_Witness ==
  /\ pc = "summed"
  /\ pairs = Example548
  /\ raw = Str(<<"1", "y", "&", "6", "m", "&", "3", "d">>)
  /\ days = Return(PyInt(548))

DropSuffix(s, suffix) ==
  IF EndsWith(s, suffix) THEN SubSeq(s, 1, Len(s) - Len(suffix)) ELSE s

Sections(df) == {df[i].section : i \in 1..Len(df)}

\* the one other spelling of a code under the cc-prefix convention
OtherSpelling(code) ==
  IF ~StartsWith(code, <<"c", "c">>) THEN <<"c", "c", "_">> \o code
  ELSE IF ~StartsWith(code, <<"c", "c", "_">>)
  THEN <<"c", "c", "_">> \o Tail2(code, 2)
  ELSE <<"c", "c">> \o Tail2(code, 3)

\* the section the matcher is to resolve a code to: the code itself, else
\* its other spelling, else <<>> for a miss
Resolved(code, df) ==
  IF code \in Sections(df) THEN <<code>>
  ELSE IF OtherSpelling(code) \in Sections(df) THEN <<OtherSpelling(code)>>
  ELSE <<>>

NameOf(section, df) ==
  df[CHOOSE i \in 1..Len(df) :
       df[i].section = section /\ \A j \in 1..(i - 1) : df[j].section # section]
    .offence_name

\* C8: on a total miss the code comes back as given, a _ycja suffix intact,
\* with a null name.
C8_MissKeepsOriginalCode ==
  (Called("parse_offence_string") /\ raw.kind = "str" /\ raw.s # <<>>
   /\ Resolved(DropSuffix(Strip(raw.s), YCJA_MARK), table) = <<>>
   /\ Resolved(Remove(Strip(raw.s), YCJA_MARK), table) = <<>>) =>
    ret = Return([offence_code |-> Str(Strip(raw.s)), offence_name |-> None])

\* C9: a code ending in _ycja is looked up without that suffix and a match
\* returns the table's name with " (YCJA)" appended; a code without the
\* suffix gets the table's name unchanged.
C9_YcjaIsASuffix ==
  (Called("parse_offence_string") /\ raw.kind = "str" /\ raw.s # <<>>) =>
    LET s == Strip(raw.s)
        hit == Resolved(DropSuffix(s, YCJA_MARK), table)
    IN /\ (EndsWith(s, YCJA_MARK) /\ hit # <<>>
           /\ NameOf(hit[1], table).kind = "str") =>
            (ret.kind = "return" /\ ret.value.offence_name =
               Str(NameOf(hit[1], table).s \o YCJA_LABEL))
       /\ (~EndsWith(s, YCJA_MARK) /\ ret.kind = "return"
           /\ ret.value.offence_name.kind = "str") =>
            \E i \in 1..Len(table) :
              ret.value.offence_name = table[i].offence_name

RowCalled == pc \in {"done", "raised"} /\ op = "process_master_row"

\* the types of row_data the row processor accepts: a record (Series), a
\* mapping (dict), a sequence (tuple or list)
AcceptedRowShapes == {"Series", "dict", "tuple", "list"}

\* C11: over the calls of process_master_row of one process invocation the
\* offence reference table is read from its file at most once.
C11_TableLoadedAtMostOnce == loads <= 1

\* row_data with every missing field written out as the empty string
Completed(row_data) ==
  [shape |-> row_data.shape,
   values |->
     IF row_data.shape \in {"Series", "dict"}
     THEN [f \in {"uid", "offence", "date", "jail", "mode", "conditions",
                  "fine", "appeal"} |->
             IF f \in DOMAIN row_data.values THEN row_data.values[f]
             ELSE Str(<<>>)]
     ELSE [i \in 1..8 |->
             IF i <= Len(row_data.values) THEN row_data.values[i]
             ELSE Str(<<>>)]]

\* C12: with a readable reference table, process_master_row raises exactly
\* when row_data is of no accepted shape; for an accepted shape it returns,
\* and returns what it returns for the row with every missing field written
\* as the empty string.
C12_RaisesExactlyOnWrongShape ==
  (RowCalled /\ file.readable) =>
    /\ (ret.kind = "raise") <=> (raw.shape \notin AcceptedRowShapes)
    /\ raw.shape \in AcceptedRowShapes =>
         ret = process_master_row(Completed(raw), file)

\* C13: when the reference table cannot be read, process_master_row still
\* returns a result for a row of an accepted shape, and the caller goes on.
C13_UnreadableTableIsReported ==
  (RowCalled /\ ~file.readable /\ raw.shape \in AcceptedRowShapes) =>
    (ret.kind = "return" /\ pc = "done")

\* a relation call has been made
Requested == op \in {"get_case_relations", "get_citing_cases"} /\ pc # "idle"

\* the lists of cases or of legislation a result carries
ListKeys == {"cases", "citingCases", "citedCases", "citedLegislations"}
ListsOf(result) == { result.entries[k] : k \in ListKeys \cap DOMAIN result.entries }

\* the key under which the call made reports what was asked for, and the key
\* of the response that holds it
AskedKey == IF op = "get_citing_cases" THEN "cases" ELSE raw.caseref_type
ResponseKey == IF op = "get_citing_cases" THEN "citingCases" ELSE raw.caseref_type

\* what the environment makes of the request
KeyMissing == env.api_key \in {None, Str(<<>>)}
Unparseable == env.parse.kind = "raise" \/ env.parse.value \in {None, EmptyDict}
Sent ==
  /\ ~KeyMissing
  /\ ~Unparseable
  /\ {"court", "uid"} \subseteq DOMAIN env.parse.value.entries
  /\ env.parse.value.entries["court"].kind = "str"
  /\ env.parse.value.entries["uid"].kind = "str"
Answered == Sent /\ env.response.kind = "return"
Status == env.response.value.status_code
StatusText ==
  CASE Status = 201 -> <<"2", "0", "1">>
    [] Status = 404 -> <<"4", "0", "4">>
    [] Status = 500 -> <<"5", "0", "0">>
    [] Status = 501 -> <<"5", "0", "1">>
ErrorOf(result) == result.entries["error"]

\* C15: a relation call never raises; a missing API key, an unparseable
\* citation, HTTP 429, any other status that is not 200 and any exception
\* give a non-null error and only empty lists; 429 gives "Rate limit
\* reached" and the other statuses "API error: <status>"; the error is null
\* only for HTTP 200, and then the list is the one of the response
C15_RelationCallNeverRaises ==
  Requested =>
    /\ pc = "done"
    /\ ret.kind = "return"
    /\ ret.value.kind = "dict"
    /\ "error" \in DOMAIN ret.value.entries
    /\ ListsOf(ret.value) # {}
    /\ ErrorOf(ret.value) # None =>
         /\ ErrorOf(ret.value).kind = "str"
         /\ ErrorOf(ret.value).s # <<>>
         /\ ListsOf(ret.value) = {EmptyList}
    /\ (KeyMissing \/ Unparseable \/ ~Answered) => ErrorOf(ret.value) # None
    /\ (Answered /\ Status = 429) =>
         ErrorOf(ret.value) = Str(<<"R", "a", "t", "e", " ", "l", "i", "m", "i", "t", " ", "r", "e", "a", "c", "h", "e", "d">>)
    /\ (Answered /\ Status \notin {200, 429}) =>
         ErrorOf(ret.value) = Str(<<"A", "P", "I", " ", "e", "r", "r", "o", "r", ":", " ">> \o StatusText)
    /\ ErrorOf(ret.value) = Str(<<"R", "a", "t", "e", " ", "l", "i", "m", "i", "t", " ", "r", "e", "a", "c", "h", "e", "d">>) =>
         Answered /\ Status = 429
    /\ ErrorOf(ret.value) = None =>
         /\ Answered
         /\ Status = 200
         /\ env.response.value.json.kind = "return"
         /\ AskedKey \in DOMAIN ret.value.entries
         /\ ret.value.entries[AskedKey] =
              IF ResponseKey \in DOMAIN env.response.value.json.value.entries
              THEN env.response.value.json.value.entries[ResponseKey]
              ELSE EmptyList

\* the three shapes of a conditions string, read as splits of the whole string
AllIn(t, S) == \A i \in 1..Len(t) : t[i] \in S
DigitChars == {"0", "1", "2", "3", "4", "5", "6", "7", "8", "9"}
IsNumeral(t) ==
  \/ t # <<>> /\ AllIn(t, DigitChars)
  \/ \E i \in 2..(Len(t) - 1) :
       /\ t[i] = "."
       /\ AllIn(SubSeq(t, 1, i - 1), DigitChars)
       /\ AllIn(SubSeq(t, i + 1, Len(t)), DigitChars)
UnitLetters == {"y", "m", "d", "Y", "M", "D"}

\* <number><unit>, blanks allowed between the two: the length of the number
NumberLengths(t) ==
  { n \in 1..(Len(t) - 1) :
      /\ IsNumeral(SubSeq(t, 1, n))
      /\ AllIn(SubSeq(t, n + 1, Len(t) - 1), {" "})
      /\ t[Len(t)] \in UnitLetters }
IsTimeUnit(t) == NumberLengths(t) # {}
TypeNames == {<<"p", "r", "o", "b", "a", "t", "i", "o", "n">>,<<"d", "i", "s", "c", "h", "a", "r", "g", "e">>,<<"l", "t", "s", "o">>,<<"i", "r", "c", "s">>,<<"p", "a", "r", "o", "l", "e">>}
IsType(t) == Lower(t) \in TypeNames
Dashes(s) == { k \in 1..Len(s) : s[k] = "-" }
ShapeA(s) == { k \in Dashes(s) : IsTimeUnit(SubSeq(s, 1, k - 1)) /\ IsType(SubSeq(s, k + 1, Len(s))) }
ShapeB(s) == { k \in Dashes(s) : IsType(SubSeq(s, 1, k - 1)) /\ IsTimeUnit(SubSeq(s, k + 1, Len(s))) }
ShapeC(s) == IsTimeUnit(s)
ShapesMatched(s) ==
  (IF ShapeA(s) # {} THEN {"a"} ELSE {})
  \cup (IF ShapeB(s) # {} THEN {"b"} ELSE {})
  \cup (IF ShapeC(s) THEN {"c"} ELSE {})

\* the time and the unit that a <number><unit> text stands for
TimeOf(t) == PyFloat(FloatOfNumeral(SubSeq(t, 1, CHOOSE n \in NumberLengths(t) : TRUE)))
UnitOf(t) == Str(Lower(<<t[Len(t)]>>))

\* what the claim expects of the trimmed string s
ExpectedConditions(s) ==
  IF ShapeA(s) # {}
  THEN LET k == CHOOSE k \in ShapeA(s) : TRUE
       IN [time |-> TimeOf(SubSeq(s, 1, k - 1)), unit |-> UnitOf(SubSeq(s, 1, k - 1)),
           type |-> Str(Lower(SubSeq(s, k + 1, Len(s))))]
  ELSE IF ShapeB(s) # {}
  THEN LET k == CHOOSE k \in ShapeB(s) : TRUE
       IN [time |-> TimeOf(SubSeq(s, k + 1, Len(s))), unit |-> UnitOf(SubSeq(s, k + 1, Len(s))),
           type |-> Str(Lower(SubSeq(s, 1, k - 1)))]
  ELSE IF ShapeC(s)
  THEN [time |-> TimeOf(s), unit |-> UnitOf(s), type |-> None]
  ELSE [time |-> None, unit |-> None, type |-> None]

\* C17: parse_conditions_string returns the fields of the one shape that
\* matches the whole trimmed string, whatever the case of its letters:
\* <number><unit>-<type> and <type>-<number><unit> give time, unit and type,
\* <number><unit> gives time and unit with a null type, the type is one of
\* probation, discharge, ltso, ircs, parole, no string matches two shapes,
\* and a string of no shape gives three nulls; "18m-probation" gives
\* 18.0, "m", "probation"
C17_ConditionsShape ==
  (Called("parse_conditions_string") /\ raw.kind = "str") =>
    /\ Cardinality(ShapesMatched(Strip(raw.s))) <= 1
    /\ Cardinality(ShapeA(Strip(raw.s))) <= 1
    /\ Cardinality(ShapeB(Strip(raw.s))) <= 1
    /\ Cardinality(NumberLengths(Strip(raw.s))) <= 1
    /\ ret = Return(ExpectedConditions(Strip(raw.s)))
    /\ ret.value.type # None => ret.value.type.s \in TypeNames
    /\ raw.s = <<"1", "8", "m", "-", "p", "r", "o", "b", "a", "t", "i", "o", "n">> =>
         ret.value = [time |-> [kind |-> "float", num |-> 18, den |-> 1],
                      unit |-> Str(<<"m">>), type |-> Str(<<"p", "r", "o", "b", "a", "t", "i", "o", "n">>)]

\* the example has been parsed
C17_Witness ==
  /\ Called("parse_conditions_string")
  /\ raw = Str(<<"1", "8", "m", "-", "p", "r", "o", "b", "a", "t", "i", "o", "n">>)
  /\ ret.value.type = Str(<<"p", "r", "o", "b", "a", "t", "i", "o", "n">>)

\* the conditions value of the row handed to process_master_row, what
\* parse_conditions_string makes of it, and the conditions section returned
RowReturned == RowCalled /\ ret.kind = "return"
ConditionsValue ==
  IF raw.shape \in {"Series", "dict"} THEN Completed(raw).values["conditions"]
  ELSE Completed(raw).values[6]
ParsedConditions == parse_conditions_string(ConditionsValue).value
ConditionsSection == ret.value.conditions

\* the word of a unit letter, and its plural
WordOf(unit) ==
  CASE unit = Str(<<"y">>) -> <<"y", "e", "a", "r">>
    [] unit = Str(<<"m">>) -> <<"m", "o", "n", "t", "h">>
    [] unit = Str(<<"d">>) -> <<"d", "a", "y">>
    [] OTHER -> <<"u", "n", "k", "n", "o", "w", "n">>
PluralOf(word) == word \o <<"s">>
ONE == [kind |-> "float", num |-> 1, den |-> 1]
ZERO == [kind |-> "float", num |-> 0, den |-> 1]

\* discharge made absolute for a time of 0 and conditional otherwise
RefinedType(type, time) ==
  IF type = Str(<<"d", "i", "s", "c", "h", "a", "r", "g", "e">>)
  THEN IF time = ZERO THEN Str(<<"a", "b", "s", "o", "l", "u", "t", "e", " ", "d", "i", "s", "c", "h", "a", "r", "g", "e">>)
       ELSE Str(<<"c", "o", "n", "d", "i", "t", "i", "o", "n", "a", "l", " ", "d", "i", "s", "c", "h", "a", "r", "g", "e">>)
  ELSE type

NonBlanks(s) == { i \in 1..Len(s) : s[i] # " " }
Min(S) == CHOOSE i \in S : \A j \in S : i <= j
Max(S) == CHOOSE i \in S : \A j \in S : j <= i
Trimmed(s) ==
  IF NonBlanks(s) = {} THEN <<>>
  ELSE SubSeq(s, Min(NonBlanks(s)), Max(NonBlanks(s)))

\* a fine as the claim reads it: the text without any `$` or `,` and without
\* the blanks at its ends, numeric when it is an optional sign and digits
\* with at most one '.'
RECURSIVE Without(_, _)
Without(s, cs) ==
  IF s = <<>> THEN <<>>
  ELSE IF Head(s) \in cs THEN Without(Tail(s), cs)
  ELSE <<Head(s)>> \o Without(Tail(s), cs)
FineText(v) == Trimmed(Without(Trimmed(v.s), {"$", ","}))
Unsigned(t) == IF t # <<>> /\ t[1] \in {"+", "-"} THEN Tail(t) ELSE t
Dots(t) == { i \in 1..Len(t) : t[i] = "." }
IsAmount(t) ==
  /\ AllIn(Unsigned(t), DigitChars \cup {"."})
  /\ Cardinality(Dots(Unsigned(t))) <= 1
  /\ \E i \in 1..Len(Unsigned(t)) : Unsigned(t)[i] \in DigitChars

\* the digits of a text read as a number in base ten
RECURSIVE NumberOf(_)
NumberOf(ds) ==
  IF ds = <<>> THEN 0
  ELSE 10 * NumberOf(SubSeq(ds, 1, Len(ds) - 1))
       + (CHOOSE d \in 0..9 : DIGITS[d + 1] = ds[Len(ds)])

\* $<amount> with exactly two decimals
IsCurrency(r) ==
  /\ Len(r) >= 5
  /\ r[1] = "$"
  /\ r[Len(r) - 2] = "."
  /\ AllIn(SubSeq(r, Len(r) - 1, Len(r)), DigitChars)
  /\ AllIn(Unsigned(SubSeq(r, 2, Len(r) - 3)), DigitChars)
  /\ Unsigned(SubSeq(r, 2, Len(r) - 3)) # <<>>
  /\ r[2] # "+"

\* the hundredths written by a currency string, and whether they are the
\* amount t rounded to the nearest hundredth
CentsOf(r) == NumberOf(Without(Unsigned(Tail(r)), {"."}))
IsRounded(r, t) ==
  LET digits == Without(Unsigned(t), {"."})
      decimals == IF Dots(Unsigned(t)) = {} THEN 0
                  ELSE Len(Unsigned(t)) - Max(Dots(Unsigned(t)))
      diff == 100 * NumberOf(digits) - CentsOf(r) * Pow10(decimals)
  IN /\ 2 * diff <= Pow10(decimals)
     /\ 2 * diff >= 0 - Pow10(decimals)
     /\ (r[2] = "-") <=> (t[1] = "-")

\* C19: parse_fine_string strips every `$` and `,` and tries to read a
\* number: a numeric input comes back as $<amount> with exactly two
\* decimals ("$1,000" and 1000 give "$1000.00"), every other input, blank
\* ones included, comes back as null.
C19_FineIsCurrencyOrNull ==
  Called("parse_fine_string") =>
    /\ ret.kind = "return"
    /\ (raw.kind = "str" /\ IsAmount(FineText(raw))) =>
         /\ ret.value.kind = "str"
         /\ IsCurrency(ret.value.s)
         /\ IsRounded(ret.value.s, FineText(raw))
    /\ (raw.kind = "str" /\ ~IsAmount(FineText(raw))) => ret.value = None
    /\ raw \in {None, NaN} => ret.value = None
    /\ raw \in {Str(<<"$", "1", ",", "0", "0", "0">>), PyInt(1000)} => ret.value = Str(<<"$", "1", "0", "0", "0", ".", "0", "0">>)

\* the text before and after the first '&'
Ampersands(s) == { i \in 1..Len(s) : s[i] = "&" }
BeforeFirst(s) == SubSeq(s, 1, Min(Ampersands(s)) - 1)
AfterFirst(s) == SubSeq(s, Min(Ampersands(s)) + 1, Len(s))

\* C20: for a date string that is not absent parse_date_string fills exactly
\* one of the two shapes: with an '&' in the string the start date is the
\* trimmed text before the first '&', the end date the trimmed text after
\* it and the single date is null; without one the single date is the whole
\* trimmed string and the start and end dates are null; the single date and
\* the pair are never filled together.
C20_ExactlyOneDateShape ==
  (Called("parse_date_string") /\ raw.kind = "str" /\ raw.s # <<>>) =>
    /\ ret.kind = "return"
    /\ Ampersands(raw.s) # {} =>
         /\ ret.value.offence_start_date = Str(Trimmed(BeforeFirst(raw.s)))
         /\ ret.value.offence_end_date = Str(Trimmed(AfterFirst(raw.s)))
         /\ ret.value.offence_date = None
    /\ Ampersands(raw.s) = {} =>
         /\ ret.value.offence_date = Str(Trimmed(raw.s))
         /\ ret.value.offence_start_date = None
         /\ ret.value.offence_end_date = None
    /\ (ret.value.offence_date = None)
         <=> (ret.value.offence_start_date # None /\ ret.value.offence_end_date # None)
    /\ (ret.value.offence_date # None)
         <=> (ret.value.offence_start_date = None /\ ret.value.offence_end_date = None)

\* a string with two '&' has been split at the first
C20_Witness ==
  /\ Called("parse_date_string")
  /\ raw = Str(<<"2", "4", "&", "&">>)
  /\ ret.value.offence_start_date = Str(<<"2", "4">>)
  /\ ret.value.offence_end_date = Str(<<"&">>)
  /\ ret.value.offence_date = None

\* a document processor has run
DocCalled == op \in {"process_text", "case_text_cmd", "generate_report_cmd"} /\ pc # "idle"

\* the citation the processor extracts from the document it was given
ExtractedCitation ==
  CASE op = "process_text" ->
         extract_citation(Str(clean_text_section(
           split_header_and_body(raw.text.markdown, TARGET_STRING)[1])))
    [] op = "generate_report_cmd" /\ _get_clean_header(raw.filename, env).kind = "return" ->
         extract_citation(_get_clean_header(raw.filename, env).value.items[1])
    [] op = "case_text_cmd" /\ _get_clean_header(raw.filename, env).kind = "return" ->
         extract_citation(_get_clean_header(raw.filename, env).value)
    [] OTHER -> <<>>

\* the citation-metadata collaborator has nothing for a citation
MetadataIsNull == ~PyBool(get_metadata_from_citation(CITATION, TRUE, env))

\* C14: when the citation-metadata collaborator returns a null or empty
\* result for an extracted citation, process_text and the case-text and
\* generate-report commands take it as no enrichment available: they still
\* complete and return their result, rather than failing.
C14_NullMetadataIsNotFatal ==
  (DocCalled /\ ExtractedCitation # <<>> /\ MetadataIsNull) =>
    /\ pc = "done"
    /\ ret.kind \in {"return", "done"}

\* what a call gives when no other call runs
Alone(call) ==
  IF call.op = "process_master_row" THEN process_master_row(call.arg, file)
  ELSE Return(split_header_and_body(call.arg.s, TARGET_STRING))

\* C16: process_master_row and split_header_and_body share no mutable
\* state: in any interleaving of concurrent calls on independent rows and
\* documents over one offences file, a call that has ended has given what
\* it gives when it runs alone, and no step changes the row or document of a
\* call that is under way or the offences file.
C16_ConcurrentCallsAsAlone ==
  [][/\ file' = file
     /\ \A p \in Procs :
          /\ (procs.calls[p].pc # "idle" /\ procs'.calls[p].pc # "idle") =>
               procs'.calls[p].arg = procs.calls[p].arg
          /\ procs'.calls[p].pc = "done" =>
               procs'.calls[p].ret = Alone(procs'.calls[p])]_vars

\* a row call has ended with its dictionary while a document call, begun
\* on another thread, is between its steps with both positions found
C16_Witness ==
  /\ procs # NoProcs
  /\ procs.calls[1].pc = "done"
  /\ procs.calls[1].op = "process_master_row"
  /\ procs.calls[1].ret.kind = "return"
  /\ procs.calls[2].pc = "cut"
  /\ procs.calls[2].op = "split_header_and_body"
  /\ procs.locals[2].second_occurrence > procs.locals[2].first_occurrence

\* the jail value of the row handed to process_master_row, what
\* parse_jail_string makes of it, and the jail section returned
JailValue ==
  IF raw.shape \in {"Series", "dict"} THEN Completed(raw).values["jail"]
  ELSE Completed(raw).values[4]
ParsedJail == parse_jail_string(JailValue).value
JailSectionReturned == ret.value.jail

\* the jail string is blank, or parses into components
JailIsBlank == IsAbsent(JailValue) \/ (JailValue.kind = "str" /\ Strip(JailValue.s) = <<>>)
JailHasComponents == ParsedJail.kind = "DataFrame" /\ ParsedJail.rows # <<>>

\* C21: in the ParsedRow the jail section carries is_indeterminate and
\* is_unrecognized flags of which at most one is true; both are false, and
\* total_days is the computed day count, when the jail string is blank or
\* parses into components; total_days is null exactly when one of the two
\* flags is true.
C21_JailFlagsTellNoSentenceFromUnknown ==
  RowReturned =>
    /\ {"is_indeterminate", "is_unrecognized"} \subseteq DOMAIN JailSectionReturned
    /\ ~(JailSectionReturned.is_indeterminate /\ JailSectionReturned.is_unrecognized)
    /\ (JailIsBlank \/ JailHasComponents) =>
         /\ ~JailSectionReturned.is_indeterminate
         /\ ~JailSectionReturned.is_unrecognized
         /\ JailSectionReturned.total_days = calculate_total_days(ParsedJail).value
    /\ (JailSectionReturned.total_days = None) <=>
         (JailSectionReturned.is_indeterminate \/ JailSectionReturned.is_unrecognized)

\* a text function has returned
TextReturned(name) == op = name /\ pc = "done"

\* the chunks of the text between the markers that are not blank
NonBlankChunks(text) == SelectSeq(SplitOn(text, TARGET_STRING), NotBlank)

\* C22: split_header_and_body splits the markdown text on the marker string
\* into chunks, drops blank chunks, and takes the 4th non-blank chunk as the
\* header, cleaned of the loading markers; when fewer than 4 non-blank chunks
\* exist the header is empty and the entire text is returned as the body.
C22_HeaderIsFourthChunk ==
  TextReturned("split_header_and_body") =>
    IF Len(NonBlankChunks(raw.text)) >= 4
    THEN ret.value[1] = clean_header(NonBlankChunks(raw.text)[4])
    ELSE ret.value = <<<<>>, raw.text>>

\* the last index of every occurrence of a loading marker in the text
MarkerEnds(text) ==
  { i + Len(ENG_MARKER) - 1 : i \in Occurrences(text, ENG_MARKER) }
  \cup { i + Len(FR_MARKER) - 1 : i \in Occurrences(text, FR_MARKER) }
HoldsMarker(text) == MarkerEnds(text) # {}

\* C23: clean_header discards everything up to and including the last
\* occurrence of either loading marker, whichever occurs later in the text,
\* and returns the trimmed remainder, which contains neither marker; when
\* neither marker is present it returns the header trimmed.
C23_AfterLastMarker ==
  TextReturned("clean_header") =>
    /\ ret.value = IF HoldsMarker(raw.text)
                   THEN Strip(Tail2(raw.text, LastOf(MarkerEnds(raw.text))))
                   ELSE Strip(raw.text)
    /\ ~HoldsMarker(ret.value)

\* a header with the French marker after the English one, and text after it
C23_Witness ==
  /\ TextReturned("clean_header")
  /\ Occurrences(raw.text, ENG_MARKER) = {1}
  /\ Occurrences(raw.text, FR_MARKER) = {Len(ENG_MARKER) + 1}
  /\ ret.value = <<"a">>

\* the end marker of the citation in each module
EndMarkerOf(module) ==
  IF module = "backend" THEN <<"\n">> ELSE END_MARKER

\* where the citation starts: after the first start marker, 0 without one
CitationStart(header) ==
  IF Occurrences(header, START_MARKER) = {} THEN 0
  ELSE FirstOf(Occurrences(header, START_MARKER)) + Len(START_MARKER)

\* the end markers that follow the start marker
EndsAfter(header, end_marker) ==
  { i \in Occurrences(header, end_marker) : i >= CitationStart(header) }

\* the citation as the claim gives it
CitationBetween(header, end_marker) ==
  IF CitationStart(header) = 0 \/ EndsAfter(header, end_marker) = {} THEN <<>>
  ELSE Strip(SubSeq(header, CitationStart(header), FirstOf(EndsAfter(header, end_marker)) - 1))

\* C24: extract_citation returns the trimmed substring between the first
\* start marker and the first end marker that follows it; when the start
\* marker is absent, or no end marker follows it, it returns the empty
\* citation.
C24_CitationBetweenMarkers ==
  TextReturned("extract_citation") =>
    ret.value = Str(CitationBetween(raw.text, EndMarkerOf(raw.module)))

\* the body extract_markdown splits into paragraphs, and its segments
\* between the marker lines that are not blank, trimmed
MarkdownBody ==
  backend_split_header_and_body(clean_header(raw.text), TARGET_STRING)[2]
NonBlankSegments == NonBlankChunks(MarkdownBody)

\* the index of the bracket that closes a tag of digits at the start of the
\* segment, within its first 10 characters; 0 when it starts with no tag
TagEnd(segment) ==
  IF segment = <<>> THEN 0
  ELSE IF segment[1] # "[" THEN 0
  ELSE FirstOrZero({ i \in 3..10 : /\ i <= Len(segment)
                                   /\ segment[i] = "]"
                                   /\ \A k \in 2..(i - 1) : IsDigit(segment[k]) })

\* the segment without a leading tag and the separator that follows it
Untagged(segment) ==
  IF TagEnd(segment) = 0 \/ TagEnd(segment) = Len(segment) THEN segment
  ELSE IF ~IsSpace(segment[TagEnd(segment) + 1]) THEN segment
  ELSE LStrip(Tail2(segment, TagEnd(segment)))

\* the paragraphs the claim gives for the segments
ParagraphsOf(segments) ==
  SubSeq([i \in 1..Len(segments) |-> Str(Untagged(Strip(segments[i])))], 1, Len(segments))

\* C25: paragraph splitting splits the body on the marker lines and returns,
\* in document order, one paragraph per non-blank segment: each segment is
\* trimmed, a leading bracketed numeral tag with its separator, within the
\* first 10 characters, is stripped, and blank segments are discarded, so
\* the paragraph count is the number of non-blank segments.
C25_ParagraphsAreUntaggedSegments ==
  TextReturned("extract_markdown") =>
    /\ ret.value.entries.body_paragraphs.items = ParagraphsOf(NonBlankSegments)
    /\ ret.value.entries.statistics.entries.paragraph_count = PyInt(Len(NonBlankSegments))

\* C26: the Text Cleaner is idempotent: cleaning a text that
\* clean_text_section has returned gives that text again.
C26_CleanIsIdempotent ==
  TextReturned("clean_text_section") =>
    clean_text_section(ret.value) = ret.value

\* a text with a line break after a blank, which the cleaner has made one
\* blank
C26_Witness ==
  /\ TextReturned("clean_text_section")
  /\ raw.text = <<"a", " ", "\n", "a">>
  /\ ret.value = <<"a", " ", "a">>

\* the master table has every required column
HasRequiredColumns == REQUIRED_COLUMNS \subseteq env.master.columns

\* the row index within [0, rows - 1] nearest to the one asked for
NearestRow(row_index, rows) ==
  CHOOSE i \in 0..(rows - 1) :
    \A j \in 0..(rows - 1) :
      (IF i < row_index THEN row_index - i ELSE i - row_index)
        <= (IF j < row_index THEN row_index - j ELSE j - row_index)

LinkedPairs == Elements(CitedFrom(raw.text, 1))

\* the tuples returned for a pair
TuplesFor(key) ==
  { i \in 1..Len(ret.value.items) :
      /\ ret.value.items[i].items[1] = Str(key.name)
      /\ ret.value.items[i].items[2] = key.section }

\* the ascending, duplicate-free list of the paragraphs that link to a pair
ParagraphsLinking(key) ==
  List(PyInts(SortedSeq({ c.paragraph : c \in { d \in LinkedPairs : d.key = key } })))

\* C28: get_cited_legislation returns, for every (name, section) pair linked
\* from a paragraph through a URL that holds "laws", one tuple, and its list
\* is exactly the ascending, duplicate-free list of the 1-based numbers of
\* all the paragraphs that link to the pair.
C28_OneTuplePerLinkedPair ==
  TextReturned("get_cited_legislation") =>
    \A key \in { c.key : c \in LinkedPairs } :
      /\ Cardinality(TuplesFor(key)) = 1
      /\ \A i \in TuplesFor(key) : ret.value.items[i].items[3] = ParagraphsLinking(key)

\* C29: for every conditions value, blank and unmatched strings included,
\* process_conditions_string returns the same (time, unit, type) as the
\* conditions section of the ParsedRow that process_master_row builds for a
\* row carrying that value.
C29_StandaloneAgreesWithRow ==
  (RowReturned /\ pairs # NoPairs) =>
    pairs = <<ConditionsSection.time, ConditionsSection.unit, ConditionsSection.type>>

\* C30: for every caseref_type among citedCases, citingCases and
\* citedLegislations and every outcome of get_case_relations (success, HTTP
\* 429, another status that is not 200, an exception before or during the
\* request), the mapping returned holds the key caseref_type mapped to a
\* list, together with an error field, and the list is empty whenever the
\* error is not null.
C30_AskedKeyAlwaysPresent ==
  (op = "get_case_relations" /\ pc # "idle") =>
    /\ ret.kind = "return"
    /\ ret.value.kind = "dict"
    /\ HasKey(ret.value, "error")
    /\ HasKey(ret.value, raw.caseref_type)
    /\ ret.value.entries[raw.caseref_type].kind = "list"
    /\ ret.value.entries["error"] # None =>
         ret.value.entries[raw.caseref_type] = EmptyList

====
